---- MODULE Spec2Model ----
(***************************************************************************)
(* Responses-protocol emulation layer of the gateway (src/api/responses.rs)*)
(* as a state machine: one Responses call from handle_responses to the     *)
(* last SSE event, with the spawned producer task of stream_response, the  *)
(* bounded mpsc channel and the HTTP body writer that consumes it.         *)
(*                                                                         *)
(* Representation of values:                                               *)
(*   - strings are TLA+ strings, push_str is \o;                           *)
(*   - Option<T> / "field absent or of another JSON type" is a sequence:   *)
(*     <<>> for None, <<v>> for Some(v);                                   *)
(*   - JSON null is <<>>, JSON objects are records, arrays are sequences;  *)
(*   - the upstream byte stream is a sequence of atoms: the newline "\n"   *)
(*     (NL) and whole lines of ASCII text (records, see DataLine).         *)
(***************************************************************************)
EXTENDS Integers, Sequences, FiniteSets, TLC

---------------------------------------------------------------------------
(* Bounds of the model *)

\* Longest upstream SSE body, in event blocks, of the general specification.
MaxBlocks == 3

\* Longest upstream SSE body, in event blocks, of the tool-call specification.
MaxToolBlocks == 2

\* Longest upstream SSE body, in event blocks, of the backpressure specification,
\* and the number of text deltas one of its blocks carries.
MaxBurstBlocks == 4
BurstLen == 16

\* Longest upstream SSE body, in event blocks, of the echo specification.
MaxEchoBlocks == 1

\* Longest upstream SSE body, in event blocks, of the gateway specification.
MaxProxyBlocks == 1

\* The number of ids each concurrent caller asks for in the identifier
\* specification.
MaxIdsPerCaller == 2

\* Longest input array, in items, of the request-translator specification.
MaxInputItems == 2

\* Longest upstream SSE body, in event blocks, of the chunk-boundary
\* specification.
MaxCutBlocks == 2

\* Longest upstream SSE body, in event blocks, of the text specification.
MaxTextBlocks == 3

\* Most choices of a non-streamed upstream response of the non-stream
\* specification.
MaxChoices == 2

\* Longest upstream SSE body, in event blocks, of the usage specification.
MaxUsageBlocks == 3
MaxNoiseBlocks == 3
MaxRefreshes == 2
MaxWrites == 1
MaxBatch == 3
MaxTailBlocks == 1

(* Program constants *)

\* tokio::sync::mpsc::channel::<String>(64)
ChannelCapacity == 64

---------------------------------------------------------------------------
(* Option and JSON helpers *)

None == <<>>
Some(v) == <<v>>
Null == <<>>

\* Option::unwrap_or
UnwrapOr(o, d) == IF o = None THEN d ELSE o[1]

RECURSIVE SetToSortedSeq_Descending(_)
\* SetToSortedSeq with the keys visited from the largest down.
SetToSortedSeq_Descending(S) ==
    IF S = {} THEN <<>>
    ELSE LET m == CHOOSE x \in S : \A y \in S : x >= y
         IN  <<m>> \o SetToSortedSeq_Descending(S \ {m})

RECURSIVE SetToSortedSeq(_)
\* Ascending iteration order of a BTreeMap's keys.
SetToSortedSeq(S) ==
    IF S = {} THEN <<>>
    ELSE LET m == CHOOSE x \in S : \A y \in S : x <= y
         IN  <<m>> \o SetToSortedSeq(S \ {m})

\* Every sequence of at most n elements of S.
SeqsUpTo(S, n) == UNION { [1..k -> S] : k \in 0..n }

---------------------------------------------------------------------------
(* Upstream wire format: what the producer reads from cc_resp.bytes_stream() *)

NL == [nl |-> TRUE]

\* The body of a data line as serde_json::from_str and the "[DONE]" test see it.
JsonBody(v) == [kind |-> "json", value |-> v]
DoneBody    == [kind |-> "done"]
InvalidBody == [kind |-> "invalid"]

\* One line of text: its prefix and the rest of it.
DataLine(body) == [nl |-> FALSE, pre |-> "data: ", body |-> body]
CommentLine    == [nl |-> FALSE, pre |-> ": ", body |-> InvalidBody]

\* A block as upstream writes it: its lines, each ended by "\n", and a blank line.
Block(line) == <<line, NL, NL>>

\* One of the two runs of bytes a line falls into where a chunk boundary may cut
\* it: the head up to the cut, the tail after it. The cut is either between two
\* characters or inside_char, between the two bytes of one character. lossy is
\* set by the decoder.
Half(line, part, inside_char) ==
    [nl |-> FALSE, pre |-> IF part = "head" THEN line.pre ELSE "", body |-> InvalidBody,
     part |-> part, of |-> line, inside_char |-> inside_char, lossy |-> FALSE]

\* A block whose line may arrive in two chunks.
CutBlock(line, inside_char) ==
    <<Half(line, "head", inside_char), Half(line, "tail", inside_char), NL, NL>>

\* A character of two bytes (U+00E9 is C3 A9), and U+FFFD, which the lossy
\* decoder puts in the place of bytes that are no character.
TwoByteChar == "<c3><a9>"
ReplacementChar == "<fffd>"

\* Chat-Completions chunk objects (the fields the translator looks at).
CcChunk(usage, choices) == [usage |-> usage, choices |-> choices]
CcChoice(fr, delta) == [finish_reason |-> fr, delta |-> delta]
CcDelta(content, tcs) == [content |-> content, tool_calls |-> tcs]
CcToolCall(index, id, function) == [index |-> index, id |-> id, function |-> function]
CcFunction(name, args) == [name |-> name, arguments |-> args]
CcUsage(p, c, t) == [prompt_tokens |-> p, completion_tokens |-> c, total_tokens |-> t]

TextChunk(s) == CcChunk(None, Some(<<CcChoice(None, Some(CcDelta(Some(s), None)))>>))
FinishChunk(fr) == CcChunk(None, Some(<<CcChoice(Some(fr), Some(CcDelta(None, None)))>>))
UsageChunk(p, c, t) == CcChunk(Some(CcUsage(Some(p), Some(c), Some(t))), Some(<<>>))
ToolChunk(tcs) == CcChunk(None, Some(<<CcChoice(None, Some(CcDelta(None, Some(tcs))))>>))

---------------------------------------------------------------------------
(* Identifiers and time *)

\* format!("{prefix}_{ts:x}{n:04x}") for the counter value n that fetch_add
\* returned; the millisecond timestamp is left out of the identifier.
next_id(prefix, n) == [prefix |-> prefix, n |-> n]

\* now_epoch(): one abstract instant, the call is shorter than a second.
now_epoch == "epoch"

---------------------------------------------------------------------------
(* JSON values of any kind (serde_json::Value) *)

(* The request fields the translator inspects the kind of (instructions,    *)
(* input, tools, tool_choice, text) hold tagged values, each kind with a    *)
(* field of its own; an object is a record of the keys it has, <<>> when it *)
(* has none.                                                                *)
JNull == [json |-> "null"]
JBool(b) == [json |-> "bool", bool |-> b]
JNumber(n) == [json |-> "number", number |-> n]
JString(s) == [json |-> "string", string |-> s]
JArray(items) == [json |-> "array", items |-> items]
JObject(fields) == [json |-> "object", fields |-> fields]

\* Value::get(key): None unless v is an object that has the key.
Value_get(v, key) ==
    IF v.json = "object" /\ key \in DOMAIN v.fields THEN Some(v.fields[key]) ELSE None

\* Option<&Value>::and_then(|v| v.as_str())
as_str(o) == IF o /= None /\ o[1].json = "string" THEN Some(o[1].string) ELSE None

---------------------------------------------------------------------------
(* Request translator *)

\* A Responses request body (the fields echoed back or steering the call).
RequestBody(model, stream) ==
    [model |-> model, stream |-> stream, instructions |-> None,
     temperature |-> None, top_p |-> None, tool_choice |-> None,
     parallel_tool_calls |-> None, tools |-> None,
     input |-> None, max_output_tokens |-> None, text |-> None]

\* One content part of a "message" input item, appended to cc_content.
translate_content_part(part, cc_content) ==
    LET ptype == UnwrapOr(as_str(Value_get(part, "type")), "")
    IN  CASE ptype = "input_text" ->
               Append(cc_content, [type |-> "text",
                                   text |-> UnwrapOr(Value_get(part, "text"), JNull)])
          [] ptype = "input_image" ->
               LET url == as_str(Value_get(part, "image_url"))
               IN  IF url /= None
                   THEN Append(cc_content, [type |-> "image_url",
                                            image_url |-> [url |-> url[1]]])
                   ELSE cc_content
          [] OTHER ->
               IF Value_get(part, "text") /= None
               THEN Append(cc_content, [type |-> "text", text |-> Value_get(part, "text")[1]])
               ELSE cc_content

RECURSIVE translate_content_parts(_, _)
\* for part in content_parts
translate_content_parts(parts, cc_content) ==
    IF parts = <<>> THEN cc_content
    ELSE translate_content_parts(Tail(parts), translate_content_part(Head(parts), cc_content))

\* developer -> system, every other role as it is.
cc_role_of(role) == IF role = "developer" THEN "system" ELSE role

\* translate_input_item: the messages with what the item adds to them.
translate_input_item(item, messages) ==
    LET item_type == UnwrapOr(as_str(Value_get(item, "type")), "")
    IN  CASE item_type = "message" ->
               LET cc_role == cc_role_of(UnwrapOr(as_str(Value_get(item, "role")), "user"))
                   content == Value_get(item, "content")
               IN  IF content /= None /\ content[1].json = "array"
                   THEN LET cc_content == translate_content_parts(content[1].items, <<>>)
                        IN  IF Len(cc_content) = 1 /\ cc_content[1].type = "text"
                            THEN Append(messages, [role |-> cc_role,
                                                   content |-> cc_content[1].text])
                            ELSE Append(messages, [role |-> cc_role,
                                                   content |-> JArray(cc_content)])
                   ELSE IF content /= None /\ content[1].json = "string"
                   THEN Append(messages, [role |-> cc_role, content |-> content[1]])
                   ELSE messages
          [] item_type = "function_call_output" ->
               Append(messages,
                      [role |-> "tool",
                       tool_call_id |-> UnwrapOr(Value_get(item, "call_id"), JNull),
                       content |-> UnwrapOr(Value_get(item, "output"), JString(""))])
          [] item_type = "" ->
               LET role == as_str(Value_get(item, "role"))
               IN  IF role /= None
                   THEN Append(messages,
                               [role |-> cc_role_of(role[1]),
                                content |-> UnwrapOr(Value_get(item, "content"), JNull)])
                   ELSE messages
          [] OTHER -> messages

RECURSIVE translate_input_items(_, _)
\* for item in items
translate_input_items(items, messages) ==
    IF items = <<>> THEN messages
    ELSE translate_input_items(Tail(items), translate_input_item(Head(items), messages))

\* The message list: the instructions, then what input yields.
MessagesOf(body) ==
    LET instr == as_str(body.instructions)
        messages == IF instr /= None
                    THEN <<[role |-> "developer", content |-> JString(instr[1])]>>
                    ELSE <<>>
    IN  IF body.input /= None /\ body.input[1].json = "string"
        THEN Append(messages, [role |-> "user", content |-> body.input[1]])
        ELSE IF body.input /= None /\ body.input[1].json = "array"
        THEN translate_input_items(body.input[1].items, messages)
        ELSE messages

RECURSIVE CcToolsOf(_)
\* for tool in tools: the function tools, in input order.
CcToolsOf(tools) ==
    IF tools = <<>> THEN <<>>
    ELSE LET tool == Head(tools)
             tool_type == UnwrapOr(as_str(Value_get(tool, "type")), "")
         IN  (IF tool_type = "function"
              THEN <<[type |-> "function",
                      function |->
                        [name |-> UnwrapOr(Value_get(tool, "name"), JNull),
                         description |-> UnwrapOr(Value_get(tool, "description"), JNull),
                         parameters |-> UnwrapOr(Value_get(tool, "parameters"), JObject(<<>>)),
                         strict |-> UnwrapOr(Value_get(tool, "strict"), JNull)]]>>
              ELSE <<>>) \o CcToolsOf(Tail(tools))

\* translate_tool_choice
translate_tool_choice(v) ==
    CASE v.json = "string" -> v
      [] v.json = "object" ->
           LET tc_type == UnwrapOr(as_str(Value_get(v, "type")), "")
           IN  IF tc_type = "function"
               THEN JObject([type |-> JString("function"),
                             function |->
                               JObject([name |-> UnwrapOr(Value_get(v, "name"), JNull)])])
               ELSE v
      [] OTHER -> JString("auto")

\* cc["response_format"] from text.format, None when it is left out.
ResponseFormatOf(text) ==
    LET fmt == IF text = None THEN None ELSE Value_get(text[1], "format")
    IN  IF fmt = None THEN None
        ELSE LET fmt_type == UnwrapOr(as_str(Value_get(fmt[1], "type")), "text")
             IN  CASE fmt_type = "json_object" -> Some([type |-> "json_object"])
                   [] fmt_type = "json_schema" ->
                        Some([type |-> "json_schema",
                              json_schema |->
                                [name |-> UnwrapOr(Value_get(fmt[1], "name"), JString("response")),
                                 schema |-> UnwrapOr(Value_get(fmt[1], "schema"), JObject(<<>>)),
                                 strict |-> UnwrapOr(Value_get(fmt[1], "strict"), JBool(TRUE))]])
                   [] OTHER -> None

\* The Chat-Completions request body; a field left out is None.
CcBodyOf(body, is_stream) ==
    LET cc_tools == IF body.tools /= None /\ body.tools[1].json = "array"
                    THEN CcToolsOf(body.tools[1].items)
                    ELSE <<>>
    IN  [model |-> body.model[1],
         messages |-> MessagesOf(body),
         tools |-> IF cc_tools /= <<>> THEN Some(cc_tools) ELSE None,
         temperature |-> body.temperature,
         top_p |-> body.top_p,
         max_tokens |-> body.max_output_tokens,
         tool_choice |-> IF body.tool_choice /= None
                         THEN Some(translate_tool_choice(body.tool_choice[1]))
                         ELSE None,
         parallel_tool_calls |-> body.parallel_tool_calls,
         response_format |-> ResponseFormatOf(body.text),
         stream |-> IF is_stream THEN Some(TRUE) ELSE None]

\* translate_request whose tool defaults are those of a request without tools.
translate_request_NoToolDefaults(body, n) ==
    IF body.model = None
    THEN [ok |-> FALSE, err |-> "missing model"]
    ELSE LET is_stream == UnwrapOr(body.stream, FALSE)
         IN  [ok |-> TRUE,
              cc_body |-> CcBodyOf(body, is_stream),
              resp_id |-> next_id("resp", n),
              model |-> body.model[1],
              tools_echo |-> UnwrapOr(body.tools, JArray(<<>>)),
              instructions |-> UnwrapOr(body.instructions, Null),
              temperature |-> UnwrapOr(body.temperature, 1),
              top_p |-> UnwrapOr(body.top_p, 1),
              tool_choice |-> UnwrapOr(body.tool_choice, JString("none")),
              parallel_tool_calls |-> UnwrapOr(body.parallel_tool_calls, FALSE),
              is_stream |-> is_stream]

\* translate_request that also wants an input to translate.
translate_request_RequiresInput(body, n) ==
    IF body.model = None \/ body.input = None \/ body.input[1].json \notin {"string", "array"}
    THEN [ok |-> FALSE, err |-> "missing model"]
    ELSE LET is_stream == UnwrapOr(body.stream, FALSE)
         IN  [ok |-> TRUE,
              cc_body |-> CcBodyOf(body, is_stream),
              resp_id |-> next_id("resp", n),
              model |-> body.model[1],
              tools_echo |-> UnwrapOr(body.tools, JArray(<<>>)),
              instructions |-> UnwrapOr(body.instructions, Null),
              temperature |-> UnwrapOr(body.temperature, 1),
              top_p |-> UnwrapOr(body.top_p, 1),
              tool_choice |-> UnwrapOr(body.tool_choice, JString("auto")),
              parallel_tool_calls |-> UnwrapOr(body.parallel_tool_calls, TRUE),
              is_stream |-> is_stream]

\* translate_request: Err when model is missing or not a string, otherwise
\* the TranslatedRequest minted with response id number n.
translate_request(body, n) ==
    IF body.model = None
    THEN [ok |-> FALSE, err |-> "missing model"]
    ELSE LET is_stream == UnwrapOr(body.stream, FALSE)
         IN  [ok |-> TRUE,
              cc_body |-> CcBodyOf(body, is_stream),
              resp_id |-> next_id("resp", n),
              model |-> body.model[1],
              tools_echo |-> UnwrapOr(body.tools, JArray(<<>>)),
              instructions |-> UnwrapOr(body.instructions, Null),
              temperature |-> UnwrapOr(body.temperature, 1),
              top_p |-> UnwrapOr(body.top_p, 1),
              tool_choice |-> UnwrapOr(body.tool_choice, JString("auto")),
              parallel_tool_calls |-> UnwrapOr(body.parallel_tool_calls, TRUE),
              is_stream |-> is_stream]

---------------------------------------------------------------------------
(* Response objects *)

\* The fields every response object copies from the TranslatedRequest.
Echo(req) ==
    [instructions |-> req.instructions,
     parallel_tool_calls |-> req.parallel_tool_calls,
     temperature |-> req.temperature,
     tool_choice |-> req.tool_choice,
     tools |-> req.tools_echo,
     top_p |-> req.top_p]

\* The constant fields of every response object.
Fixed ==
    [object |-> "response", error |-> Null, previous_response_id |-> Null,
     text |-> [format |-> [type |-> "text"]], truncation |-> "disabled",
     metadata |-> [empty |-> TRUE]]

\* StatusOf that takes every finish reason other than "stop" for a truncation.
StatusOf_AnyButStop(finish_reason) ==
    IF finish_reason = "stop" THEN "completed" ELSE "incomplete"

\* status / incomplete_details / terminal event type from the finish reason.
StatusOf(finish_reason) ==
    IF finish_reason = "length" THEN "incomplete" ELSE "completed"

IncompleteDetailsOf(finish_reason) ==
    IF finish_reason = "length" THEN [reason |-> "max_output_tokens"] ELSE Null

\* response_envelope: the event carrying an in-progress response object;
\* seq is the value of the counter after its increment.
response_envelope(event_type, resp_id, model, req, status, usage, incomplete_details, seq) ==
    [type |-> event_type,
     response |-> ([id |-> resp_id,
                    created_at |-> now_epoch,
                    status |-> status,
                    completed_at |-> Null,
                    incomplete_details |-> incomplete_details,
                    max_output_tokens |-> Null,
                    model |-> model,
                    output |-> <<>>,
                    usage |-> usage] @@ Echo(req)) @@ Fixed,
     sequence_number |-> seq]

---------------------------------------------------------------------------
(* Non-stream response translator *)

\* A complete Chat-Completions response (the fields the translator looks at).
CcResponse(choices, usage) == [model |-> None, choices |-> choices, usage |-> usage]
CcFullChoice(message, fr) == [message |-> message, finish_reason |-> fr]
CcMessage(content, tcs) == [content |-> content, tool_calls |-> tcs]
CcFullToolCall(id, function) == [id |-> id, function |-> function]

RECURSIVE OutputOfToolCalls(_, _)
\* for tc in tool_calls: one function_call item each, ids minted from n on.
OutputOfToolCalls(tcs, n) ==
    IF tcs = <<>> THEN <<>>
    ELSE LET tc == Head(tcs)
             func == UnwrapOr(tc.function, CcFunction(None, None))
         IN  <<[id |-> next_id("fc", n),
                type |-> "function_call",
                status |-> "completed",
                call_id |-> tc.id,
                name |-> func.name,
                arguments |-> UnwrapOr(func.arguments, "")]>>
             \o OutputOfToolCalls(Tail(tcs), n + 1)

\* OutputOfChoice that makes a message item of every string content, the empty
\* one too.
OutputOfChoice_EmptyMessage(choice, n) ==
    IF choice.message = None THEN <<>>
    ELSE LET msg == choice.message[1]
             fcs == IF msg.tool_calls = None THEN <<>>
                    ELSE OutputOfToolCalls(msg.tool_calls[1], n)
         IN  fcs \o
             (IF msg.content /= None
              THEN <<[id |-> next_id("msg", n + Len(fcs)),
                      type |-> "message",
                      role |-> "assistant",
                      status |-> "completed",
                      content |-> <<[type |-> "output_text",
                                     text |-> msg.content[1],
                                     annotations |-> <<>>]>>]>>
              ELSE <<>>)

\* The output items of one choice, ids minted from n on.
OutputOfChoice(choice, n) ==
    IF choice.message = None THEN <<>>
    ELSE LET msg == choice.message[1]
             fcs == IF msg.tool_calls = None THEN <<>>
                    ELSE OutputOfToolCalls(msg.tool_calls[1], n)
             content == UnwrapOr(msg.content, "")
         IN  fcs \o
             (IF content /= ""
              THEN <<[id |-> next_id("msg", n + Len(fcs)),
                      type |-> "message",
                      role |-> "assistant",
                      status |-> "completed",
                      content |-> <<[type |-> "output_text",
                                     text |-> content,
                                     annotations |-> <<>>]>>]>>
              ELSE <<>>)

RECURSIVE OutputOfChoices(_, _)
\* for choice in choices: all items flattened in choice order.
OutputOfChoices(choices, n) ==
    IF choices = <<>> THEN <<>>
    ELSE LET first == OutputOfChoice(Head(choices), n)
         IN  first \o OutputOfChoices(Tail(choices), n + Len(first))

\* translate_response: the Responses object for cc_resp, ids minted from n on.
translate_response(cc_resp, req, n) ==
    LET choices == UnwrapOr(cc_resp.choices, <<>>)
        output == OutputOfChoices(choices, n)
        usage == IF cc_resp.usage /= None
                 THEN LET u == cc_resp.usage[1]
                      IN  [input_tokens |-> UnwrapOr(u.prompt_tokens, 0),
                           output_tokens |-> UnwrapOr(u.completion_tokens, 0),
                           output_tokens_details |-> [reasoning_tokens |-> 0],
                           total_tokens |-> UnwrapOr(u.total_tokens, 0)]
                 ELSE Null
        finish_reason == IF choices = <<>> THEN "stop"
                         ELSE UnwrapOr(choices[1].finish_reason, "stop")
    IN  ([id |-> req.resp_id,
          created_at |-> now_epoch,
          status |-> StatusOf(finish_reason),
          completed_at |-> Some(now_epoch),
          incomplete_details |-> IncompleteDetailsOf(finish_reason),
          model |-> UnwrapOr(cc_resp.model, req.model),
          output |-> output,
          usage |-> usage] @@ Echo(req)) @@ Fixed

---------------------------------------------------------------------------
(* Streaming translator: the producer task's computation *)

(* The operators below work on a record w of the task's local variables     *)
(* (seq, full_text, tool_calls, text_content_started, finish_reason,        *)
(* input_tokens, output_tokens, total_tokens, buffer, msg_id) extended with *)
(* SEQ, the process-wide id counter, and out, the events handed to send!    *)
(* in order during the step.                                                *)

\* A fresh ToolCallAcc.
ToolCallAcc(id, item_id) ==
    [id |-> id, item_id |-> item_id, name |-> "", arguments |-> "", announced |-> FALSE]

\* Emit with the counter incremented after the event is built, not before.
Emit_PostIncrement(w, evt) ==
    [w EXCEPT !.seq = @ + 1,
              !.out = Append(@, evt @@ [sequence_number |-> w.seq])]

\* seq += 1; let evt = json!({..., "sequence_number": seq}); send!(type, evt);
Emit(w, evt) ==
    [w EXCEPT !.seq = @ + 1,
              !.out = Append(@, evt @@ [sequence_number |-> w.seq + 1])]

\* let evt = response_envelope(type, ..., &mut seq); send!(type, evt);
EmitEnvelope(w, event_type, req) ==
    [w EXCEPT !.seq = @ + 1,
              !.out = Append(@, response_envelope(event_type, req.resp_id, req.model, req,
                                                  "in_progress", Null, Null, w.seq + 1))]

\* response.output_item.added of a tool call (mid-stream and at the drain).
ToolAdded(idx, acc) ==
    [type |-> "response.output_item.added",
     output_index |-> idx + 1,
     item |-> [id |-> acc.item_id,
               type |-> "function_call",
               status |-> "in_progress",
               call_id |-> acc.id,
               name |-> acc.name,
               arguments |-> ""]]

\* ArgumentsDelta carrying everything accumulated so far instead of the fragment.
ArgumentsDelta_Cumulative(idx, acc, args) ==
    [type |-> "response.function_call_arguments.delta",
     item_id |-> acc.item_id,
     output_index |-> idx + 1,
     delta |-> acc.arguments \o args]

\* response.function_call_arguments.delta for the fragment args of a tool call.
ArgumentsDelta(idx, acc, args) ==
    [type |-> "response.function_call_arguments.delta",
     item_id |-> acc.item_id,
     output_index |-> idx + 1,
     delta |-> args]

\* StartEvents with the content part announced before its item.
StartEvents_PartFirst(w, req) ==
    LET w1 == EmitEnvelope(w, "response.created", req)
        w2 == EmitEnvelope(w1, "response.in_progress", req)
        w3 == Emit(w2, [type |-> "response.content_part.added",
                        item_id |-> w.msg_id,
                        output_index |-> 0,
                        content_index |-> 0,
                        part |-> [type |-> "output_text", text |-> "", annotations |-> <<>>]])
        w4 == Emit(w3, [type |-> "response.output_item.added",
                        output_index |-> 0,
                        item |-> [id |-> w.msg_id,
                                  type |-> "message",
                                  role |-> "assistant",
                                  status |-> "in_progress",
                                  content |-> <<>>]])
    IN  [w4 EXCEPT !.text_content_started = TRUE]

\* The four events sent before the first read of the upstream body.
StartEvents(w, req) ==
    LET w1 == EmitEnvelope(w, "response.created", req)
        w2 == EmitEnvelope(w1, "response.in_progress", req)
        w3 == Emit(w2, [type |-> "response.output_item.added",
                        output_index |-> 0,
                        item |-> [id |-> w.msg_id,
                                  type |-> "message",
                                  role |-> "assistant",
                                  status |-> "in_progress",
                                  content |-> <<>>]])
        w4 == Emit(w3, [type |-> "response.content_part.added",
                        item_id |-> w.msg_id,
                        output_index |-> 0,
                        content_index |-> 0,
                        part |-> [type |-> "output_text", text |-> "", annotations |-> <<>>]])
    IN  [w4 EXCEPT !.text_content_started = TRUE]

\* ProcessToolCall that takes the id of every delta that has one, the empty
\* string too.
ProcessToolCall_OverwritesId(w, tc) ==
    LET idx == UnwrapOr(tc.index, 0)
        w1 == IF idx \in DOMAIN w.tool_calls THEN w
              ELSE [w EXCEPT !.tool_calls =
                                 @ @@ (idx :> ToolCallAcc(UnwrapOr(tc.id, ""),
                                                          next_id("fc", w.SEQ))),
                             !.SEQ = @ + 1]
        w2 == IF tc.id /= None
              THEN [w1 EXCEPT !.tool_calls[idx].id = tc.id[1]]
              ELSE w1
    IN  IF tc.function = None THEN w2
        ELSE LET f == tc.function[1]
                 w3 == IF f.name /= None
                       THEN [w2 EXCEPT !.tool_calls[idx].name = @ \o f.name[1]]
                       ELSE w2
             IN  IF f.arguments = None THEN w3
                 ELSE LET args == f.arguments[1]
                          acc == w3.tool_calls[idx]
                          w4 == IF ~acc.announced /\ acc.name /= ""
                                THEN [Emit(w3, ToolAdded(idx, acc))
                                        EXCEPT !.tool_calls[idx].announced = TRUE]
                                ELSE w3
                          w5 == [w4 EXCEPT !.tool_calls[idx].arguments = @ \o args]
                      IN  Emit(w5, ArgumentsDelta(idx, acc, args))

\* One element of delta.tool_calls.
ProcessToolCall(w, tc) ==
    LET idx == UnwrapOr(tc.index, 0)
        w1 == IF idx \in DOMAIN w.tool_calls THEN w
              ELSE [w EXCEPT !.tool_calls =
                                 @ @@ (idx :> ToolCallAcc(UnwrapOr(tc.id, ""),
                                                          next_id("fc", w.SEQ))),
                             !.SEQ = @ + 1]
        w2 == IF tc.id /= None /\ tc.id[1] /= ""
              THEN [w1 EXCEPT !.tool_calls[idx].id = tc.id[1]]
              ELSE w1
    IN  IF tc.function = None THEN w2
        ELSE LET f == tc.function[1]
                 w3 == IF f.name /= None
                       THEN [w2 EXCEPT !.tool_calls[idx].name = @ \o f.name[1]]
                       ELSE w2
             IN  IF f.arguments = None THEN w3
                 ELSE LET args == f.arguments[1]
                          acc == w3.tool_calls[idx]
                          w4 == IF ~acc.announced /\ acc.name /= ""
                                THEN [Emit(w3, ToolAdded(idx, acc))
                                        EXCEPT !.tool_calls[idx].announced = TRUE]
                                ELSE w3
                          w5 == [w4 EXCEPT !.tool_calls[idx].arguments = @ \o args]
                      IN  Emit(w5, ArgumentsDelta(idx, acc, args))

RECURSIVE ProcessToolCalls(_, _)
\* for tc in tcs
ProcessToolCalls(w, tcs) ==
    IF tcs = <<>> THEN w
    ELSE ProcessToolCalls(ProcessToolCall(w, Head(tcs)), Tail(tcs))

\* ProcessChoice that emits a text delta event for every string delta, the
\* empty one too.
ProcessChoice_EmitsEmpty(w, choice) ==
    LET w1 == IF choice.finish_reason /= None
              THEN [w EXCEPT !.finish_reason = choice.finish_reason[1]]
              ELSE w
    IN  IF choice.delta = None THEN w1
        ELSE LET delta == choice.delta[1]
                 w2 == IF delta.content /= None
                       THEN Emit([w1 EXCEPT !.full_text = @ \o delta.content[1]],
                                 [type |-> "response.output_text.delta",
                                  item_id |-> w.msg_id,
                                  output_index |-> 0,
                                  content_index |-> 0,
                                  delta |-> delta.content[1]])
                       ELSE w1
             IN  IF delta.tool_calls = None THEN w2
                 ELSE ProcessToolCalls(w2, delta.tool_calls[1])

\* One element of choices.
ProcessChoice(w, choice) ==
    LET w1 == IF choice.finish_reason /= None
              THEN [w EXCEPT !.finish_reason = choice.finish_reason[1]]
              ELSE w
    IN  IF choice.delta = None THEN w1
        ELSE LET delta == choice.delta[1]
                 w2 == IF delta.content /= None /\ delta.content[1] /= ""
                       THEN Emit([w1 EXCEPT !.full_text = @ \o delta.content[1]],
                                 [type |-> "response.output_text.delta",
                                  item_id |-> w.msg_id,
                                  output_index |-> 0,
                                  content_index |-> 0,
                                  delta |-> delta.content[1]])
                       ELSE w1
             IN  IF delta.tool_calls = None THEN w2
                 ELSE ProcessToolCalls(w2, delta.tool_calls[1])

RECURSIVE ProcessChoices(_, _)
\* for choice in choices
ProcessChoices(w, choices) ==
    IF choices = <<>> THEN w
    ELSE ProcessChoices(ProcessChoice(w, Head(choices)), Tail(choices))

\* ProcessPayload that adds the reported counts to the running counters.
ProcessPayload_Accumulates(w, parsed) ==
    LET w1 == IF parsed.usage /= None
              THEN LET u == parsed.usage[1]
                   IN  [w EXCEPT !.input_tokens = @ + UnwrapOr(u.prompt_tokens, 0),
                                 !.output_tokens = @ + UnwrapOr(u.completion_tokens, 0),
                                 !.total_tokens = @ + UnwrapOr(u.total_tokens, 0)]
              ELSE w
    IN  IF parsed.choices = None THEN w1
        ELSE ProcessChoices(w1, parsed.choices[1])

\* One parsed payload: the usage counters, then its choices.
ProcessPayload(w, parsed) ==
    LET w1 == IF parsed.usage /= None
              THEN LET u == parsed.usage[1]
                   IN  [w EXCEPT !.input_tokens = UnwrapOr(u.prompt_tokens, @),
                                 !.output_tokens = UnwrapOr(u.completion_tokens, @),
                                 !.total_tokens = UnwrapOr(u.total_tokens, @)]
              ELSE w
    IN  IF parsed.choices = None THEN w1
        ELSE ProcessChoices(w1, parsed.choices[1])

---------------------------------------------------------------------------
(* SSE frame parser *)

\* serde_json::from_str(data)
ParseJson(body) == IF body.kind = "json" THEN Some(body.value) ELSE None

\* String::from_utf8_lossy(&chunk): the bytes of the chunk as text. The head of
\* a line cut inside a character ends the chunk with the first byte of that
\* character, its tail begins the next chunk with the second: each of the two
\* bytes is decoded on its own, to U+FFFD.
from_utf8_lossy(chunk) ==
    [i \in 1..Len(chunk) |->
       IF /\ "part" \in DOMAIN chunk[i]
          /\ chunk[i].inside_char
          /\ \/ chunk[i].part = "head" /\ i = Len(chunk)
             \/ chunk[i].part = "tail" /\ i = 1
       THEN [chunk[i] EXCEPT !.lossy = TRUE]
       ELSE chunk[i]]

\* The line with its two-byte character replaced by two U+FFFD.
Lossy(line) ==
    [line EXCEPT !.body.value.choices[1][1].delta[1].content =
                    Some(ReplacementChar \o ReplacementChar)]

\* The text of a line made of the given atoms: one atom is that line; the two
\* halves of a line are that line, as the decoder left it; other atoms run
\* together are a line that starts like the first and is no JSON.
LineText(atoms) ==
    IF Len(atoms) = 1 THEN atoms[1]
    ELSE IF /\ Len(atoms) = 2
            /\ "part" \in DOMAIN atoms[1]
            /\ "part" \in DOMAIN atoms[2]
            /\ atoms[1].part = "head"
            /\ atoms[2].part = "tail"
            /\ atoms[1].of = atoms[2].of
    THEN (IF atoms[1].lossy \/ atoms[2].lossy THEN Lossy(atoms[1].of) ELSE atoms[1].of)
    ELSE [nl |-> FALSE, pre |-> atoms[1].pre, body |-> InvalidBody]

\* ProcessLine that takes "[DONE]" for the end of the stream and drops what
\* is buffered behind it.
ProcessLine_DoneDropsRest(w, atoms) ==
    IF atoms = <<>> THEN w
    ELSE LET line == LineText(atoms)
         IN  IF line.pre /= "data: " THEN w
             ELSE IF line.body = DoneBody THEN [w EXCEPT !.buffer = <<>>]
             ELSE LET parsed == ParseJson(line.body)
                  IN  IF parsed = None THEN w
                      ELSE ProcessPayload(w, parsed[1])

\* One line of a block.
ProcessLine(w, atoms) ==
    IF atoms = <<>> THEN w
    ELSE LET line == LineText(atoms)
         IN  IF line.pre /= "data: " THEN w
             ELSE IF line.body = DoneBody THEN w
             ELSE LET parsed == ParseJson(line.body)
                  IN  IF parsed = None THEN w
                      ELSE ProcessPayload(w, parsed[1])

\* Index of the first NL at or after position i of s, Len(s) + 1 when none.
RECURSIVE FindNL(_, _)
FindNL(s, i) ==
    IF i > Len(s) THEN i
    ELSE IF s[i] = NL THEN i
    ELSE FindNL(s, i + 1)

RECURSIVE ProcessLines(_, _)
\* for line in block.lines()
ProcessLines(w, block) ==
    IF block = <<>> THEN w
    ELSE LET e == FindNL(block, 1)
         IN  ProcessLines(ProcessLine(w, SubSeq(block, 1, e - 1)),
                          SubSeq(block, e + 1, Len(block)))

\* buffer.find("\n\n"): index of the first NL followed by an NL, 0 when none.
RECURSIVE FindBlankLine(_, _)
FindBlankLine(s, i) ==
    IF i + 1 > Len(s) THEN 0
    ELSE IF s[i] = NL /\ s[i + 1] = NL THEN i
    ELSE FindBlankLine(s, i + 1)

RECURSIVE ProcessBuffer(_)
\* while let Some(pos) = buffer.find("\n\n")
ProcessBuffer(w) ==
    LET pos == FindBlankLine(w.buffer, 1)
    IN  IF pos = 0 THEN w
        ELSE LET block == SubSeq(w.buffer, 1, pos - 1)
                 rest == SubSeq(w.buffer, pos + 2, Len(w.buffer))
             IN  ProcessBuffer(ProcessLines([w EXCEPT !.buffer = rest], block))

\* One Ok(chunk) of the byte stream.
ProcessChunk(w, chunk) ==
    ProcessBuffer([w EXCEPT !.buffer = @ \o from_utf8_lossy(chunk)])

---------------------------------------------------------------------------
(* Draining: what the task does once the read loop has ended *)

\* MessageItem whose status is "completed" whatever the finish reason.
MessageItem_AlwaysCompleted(w) ==
    [id |-> w.msg_id,
     type |-> "message",
     role |-> "assistant",
     status |-> "completed",
     content |-> <<[type |-> "output_text", text |-> w.full_text, annotations |-> <<>>]>>]

\* The finished message item.
MessageItem(w) ==
    [id |-> w.msg_id,
     type |-> "message",
     role |-> "assistant",
     status |-> StatusOf(w.finish_reason),
     content |-> <<[type |-> "output_text", text |-> w.full_text, annotations |-> <<>>]>>]

\* output_text.done / content_part.done of the message item.
DrainText(w) ==
    LET part == [type |-> "response.content_part.done",
                 item_id |-> w.msg_id,
                 output_index |-> 0,
                 content_index |-> 0,
                 part |-> [type |-> "output_text", text |-> w.full_text,
                           annotations |-> <<>>]]
        w1 == IF w.full_text /= "" /\ w.text_content_started
              THEN Emit(Emit(w, [type |-> "response.output_text.done",
                                 item_id |-> w.msg_id,
                                 output_index |-> 0,
                                 content_index |-> 0,
                                 text |-> w.full_text]),
                        part)
              ELSE w
    IN  IF w1.full_text = "" /\ w1.text_content_started /\ DOMAIN w1.tool_calls /= {}
        THEN Emit(w1, part)
        ELSE w1

\* DrainMessage that finishes the message item only when there is text.
DrainMessage_OnlyWithText(w) ==
    IF w.full_text /= ""
    THEN [Emit(w, [type |-> "response.output_item.done",
                   output_index |-> 0,
                   item |-> MessageItem(w)])
            EXCEPT !.final_output = Append(@, MessageItem(w))]
    ELSE w

\* DrainMessage that finishes the message item whatever was accumulated.
DrainMessage_Always(w) ==
    [Emit(w, [type |-> "response.output_item.done",
              output_index |-> 0,
              item |-> MessageItem(w)])
       EXCEPT !.final_output = Append(@, MessageItem(w))]

\* output_item.done of the message item, appended to final_output.
DrainMessage(w) ==
    IF w.full_text /= "" \/ DOMAIN w.tool_calls = {}
    THEN [Emit(w, [type |-> "response.output_item.done",
                   output_index |-> 0,
                   item |-> MessageItem(w)])
            EXCEPT !.final_output = Append(@, MessageItem(w))]
    ELSE w

\* The body of the loop over the accumulators, for the one at index idx.
DrainToolCall(w, idx) ==
    LET acc == w.tool_calls[idx]
        fc_item == [id |-> acc.item_id,
                    type |-> "function_call",
                    status |-> "completed",
                    call_id |-> acc.id,
                    name |-> acc.name,
                    arguments |-> acc.arguments]
        w1 == IF ~acc.announced THEN Emit(w, ToolAdded(idx, acc)) ELSE w
        w2 == Emit(w1, [type |-> "response.function_call_arguments.done",
                        item_id |-> acc.item_id,
                        output_index |-> idx + 1,
                        name |-> acc.name,
                        arguments |-> acc.arguments])
        w3 == Emit(w2, [type |-> "response.output_item.done",
                        output_index |-> idx + 1,
                        item |-> fc_item])
    IN  [w3 EXCEPT !.final_output = Append(@, fc_item)]

RECURSIVE DrainToolCalls(_, _)
\* for (idx, acc) in &tool_calls
DrainToolCalls(w, idxs) ==
    IF idxs = <<>> THEN w
    ELSE DrainToolCalls(DrainToolCall(w, Head(idxs)), Tail(idxs))

\* The type of the terminal event.
FinalEventType(finish_reason) ==
    IF StatusOf(finish_reason) = "incomplete"
    THEN "response.incomplete"
    ELSE "response.completed"

\* FinalResponse with a response id minted anew for the terminal event.
FinalResponse_FreshId(w, req) ==
    ([id |-> next_id("resp", w.SEQ),
      created_at |-> now_epoch,
      status |-> StatusOf(w.finish_reason),
      completed_at |-> Some(now_epoch),
      incomplete_details |-> IncompleteDetailsOf(w.finish_reason),
      model |-> req.model,
      output |-> w.final_output,
      usage |-> [input_tokens |-> w.input_tokens,
                 output_tokens |-> w.output_tokens,
                 output_tokens_details |-> [reasoning_tokens |-> 0],
                 total_tokens |-> w.total_tokens]] @@ Echo(req)) @@ Fixed

\* The response object of the terminal event.
FinalResponse(w, req) ==
    ([id |-> req.resp_id,
      created_at |-> now_epoch,
      status |-> StatusOf(w.finish_reason),
      completed_at |-> Some(now_epoch),
      incomplete_details |-> IncompleteDetailsOf(w.finish_reason),
      model |-> req.model,
      output |-> w.final_output,
      usage |-> [input_tokens |-> w.input_tokens,
                 output_tokens |-> w.output_tokens,
                 output_tokens_details |-> [reasoning_tokens |-> 0],
                 total_tokens |-> w.total_tokens]] @@ Echo(req)) @@ Fixed

\* The terminal event.
DrainTerminal(w, req) ==
    Emit(w, [type |-> FinalEventType(w.finish_reason),
             response |-> FinalResponse(w, req)])

\* Drain with the terminal event built before the tool calls are finished.
Drain_TerminalFirst(w, req) ==
    DrainToolCalls(DrainTerminal(DrainMessage(DrainText(w)), req),
                   SetToSortedSeq(DOMAIN w.tool_calls))

\* Everything after the read loop.
Drain(w, req) ==
    DrainTerminal(
        DrainToolCalls(DrainMessage(DrainText(w)),
                       SetToSortedSeq(DOMAIN w.tool_calls)),
        req)

---------------------------------------------------------------------------
(* Error envelope *)

\* error_response that repeats the error type as the code.
error_response_TypeAsCode(status, message, error_type) ==
    [status |-> status,
     content_type |-> "application/json",
     error |-> [message |-> message, type |-> error_type, param |-> Null,
                code |-> Some(error_type)]]

\* error_response(status, message, error_type)
error_response(status, message, error_type) ==
    [status |-> status,
     content_type |-> "application/json",
     error |-> [message |-> message, type |-> error_type, param |-> Null, code |-> Null]]

---------------------------------------------------------------------------
(* The gateway in front of the translators: src/api/proxy.rs, src/model.rs *)

(* Strings the gateway takes apart (model ids, the Authorization header) are *)
(* sequences of one-character strings.                                       *)

\* str::strip_prefix
strip_prefix(s, p) ==
    IF Len(s) >= Len(p) /\ SubSeq(s, 1, Len(p)) = p
    THEN Some(SubSeq(s, Len(p) + 1, Len(s)))
    ELSE None

\* str::strip_suffix
strip_suffix(s, p) ==
    IF Len(s) >= Len(p) /\ SubSeq(s, Len(s) - Len(p) + 1, Len(s)) = p
    THEN Some(SubSeq(s, 1, Len(s) - Len(p)))
    ELSE None

\* s.split(c).last(): what follows the last c of s, all of s when it has none.
split_last(s, c) ==
    LET at == {i \in 1..Len(s) : s[i] = c}
    IN  IF at = {} THEN s
        ELSE SubSeq(s, (CHOOSE i \in at : \A j \in at : j <= i) + 1, Len(s))

\* A catalogue entry (the field the gateway routes on).
Model(id) == [id |-> id]

\* Model::display_id
display_id(m) ==
    split_last(UnwrapOr(strip_suffix(m.id, <<":", "f", "r", "e", "e">>), m.id), "/")

\* Model::matches_display_id
matches_display_id(m, id) == m.id = id \/ display_id(m) = id

\* models.iter().find(|m| m.matches_display_id(id)): the first match.
find_model(models, id) ==
    LET at == {i \in 1..Len(models) : matches_display_id(models[i], id)}
    IN  IF at = {} THEN None
        ELSE Some(models[CHOOSE i \in at : \A j \in at : i <= j])

---------------------------------------------------------------------------
(* The model catalogue and its refresh: model.rs, state.rs *)

\* A catalogue entry as upstream lists it: the fields classify reads.
FullModel(id, name, description, pricing) ==
    [id |-> id, name |-> name, description |-> description, pricing |-> pricing]

Pricing(prompt, completion) == [prompt |-> prompt, completion |-> completion]

META_ROUTER_IDS ==
    { <<"o", "p", "e", "n", "r", "o", "u", "t", "e", "r", "/", "a", "u", "t", "o">>,
      <<"o", "p", "e", "n", "r", "o", "u", "t", "e", "r", "/", "f", "r", "e", "e">>,
      <<"o", "p", "e", "n", "r", "o", "u", "t", "e", "r", "/", "b", "o", "d", "y", "b", "u", "i", "l", "d", "e", "r">>,
      <<"s", "w", "i", "t", "c", "h", "p", "o", "i", "n", "t", "/", "r", "o", "u", "t", "e", "r">> }

\* str::ends_with, str::starts_with
ends_with(s, p) == strip_suffix(s, p) /= None
starts_with(s, p) == strip_prefix(s, p) /= None

\* str::contains
contains(s, sub) ==
    \E i \in 0..(Len(s) - Len(sub)) : SubSeq(s, i + 1, i + Len(sub)) = sub

UpperCase == <<"A", "B", "C", "D", "E", "F", "G", "H", "I", "J", "K", "L", "M", "N", "O", "P", "Q", "R", "S", "T", "U", "V", "W", "X", "Y", "Z">>
LowerCase == <<"a", "b", "c", "d", "e", "f", "g", "h", "i", "j", "k", "l", "m", "n", "o", "p", "q", "r", "s", "t", "u", "v", "w", "x", "y", "z">>

\* str::to_lowercase
to_lowercase(s) ==
    [i \in 1..Len(s) |->
        IF \E k \in 1..26 : UpperCase[k] = s[i]
        THEN LowerCase[CHOOSE k \in 1..26 : UpperCase[k] = s[i]]
        ELSE s[i]]

\* Model::is_free
is_free(m) ==
    \/ ends_with(m.id, <<":", "f", "r", "e", "e">>)
    \/ /\ m.pricing /= None
       /\ m.pricing[1].prompt = Some("0")
       /\ m.pricing[1].completion = Some("0")

\* The closure has_keyword of Model::is_stealth
has_keyword(s) ==
    \/ contains(to_lowercase(s), <<"c", "l", "o", "a", "k", "e", "d">>)
    \/ contains(to_lowercase(s), <<"s", "t", "e", "a", "l", "t", "h">>)

\* Model::is_stealth
is_stealth(m) ==
    \/ (m.description /= None /\ has_keyword(m.description[1]))
    \/ has_keyword(m.name)
    \/ starts_with(m.id, <<"s", "t", "e", "a", "l", "t", "h", "/">>)

\* Model::is_meta_router
is_meta_router(m) ==
    \/ m.id \in META_ROUTER_IDS
    \/ /\ m.pricing /= None
       /\ (m.pricing[1].prompt = Some("-1") \/ m.pricing[1].completion = Some("-1"))

\* Model::classify; SelectSeq is iter().filter(..).cloned().collect()
classify(all) ==
    LET free_usable(m) == is_free(m) /\ ~is_meta_router(m)
        stealth_usable(m) == is_stealth(m) /\ ~is_meta_router(m)
    IN  [free |-> SelectSeq(all, free_usable), stealth |-> SelectSeq(all, stealth_usable)]

\* Model::health_check_batch: the models whose ping answered, in the order
\* they came; pings[i] is what the ping of the i-th model returned.
health_check_batch(models, pings) ==
    LET at == {i \in 1..Len(models) : pings[i]}
        RECURSIVE From(_)
        From(i) == IF i > Len(models) THEN <<>>
                   ELSE (IF i \in at THEN <<models[i]>> ELSE <<>>) \o From(i + 1)
    IN  From(1)

\* The ids of a list of models.
IdsOf(models) == {models[i].id : i \in 1..Len(models)}

\* The vector added of AppState::diff_tier: the models that are new upstream.
diff_tier_added(old, fresh) ==
    LET is_added(m) == m.id \in (IdsOf(fresh) \ IdsOf(old))
    IN  SelectSeq(fresh, is_added)

\* AppState::diff_tier
diff_tier(old, fresh, key, pings) ==
    LET added == diff_tier_added(old, fresh)
        still_present(m) == m.id \in IdsOf(fresh)
        result == SelectSeq(old, still_present)
    IN  IF added /= <<>>
        THEN (IF key /= None
              THEN result \o health_check_batch(added, pings)
              ELSE result \o added)
        ELSE result

\* What the pings of one health_check_batch may return; no ping is sent
\* without a key or without a model.
PingsOf(models, key) ==
    IF key = None \/ models = <<>> THEN {<<>>} ELSE [1..Len(models) -> BOOLEAN]

\* AppState::new: the cache before the first refresh.
EmptyCache == [free_models |-> <<>>, stealth_models |-> <<>>, last_refreshed |-> 0]

\* What the refresher remembers of a refresh: what the fetch returned (None
\* when it failed), the cache it started from and what its pings returned.
Refreshed(kind, fetched, old, free_pings, stealth_pings) ==
    [kind |-> kind, fetched |-> fetched, old |-> old,
     pings |-> [free |-> free_pings, stealth |-> stealth_pings]]

\* The refresher of a process that starts, with its health_check_key.
NewRefresher(key) ==
    [pc |-> "startup", key |-> key, refreshes |-> 0, last |-> None,
     lists |-> None, written |-> 0]

\* The refresher of a running gateway: main has run full_refresh and spawned
\* the scheduler, which sleeps.
Scheduled == [NewRefresher(None) EXCEPT !.pc = "sleeping", !.refreshes = 1]

\* The RwLock with no guard out.
Unlocked == [writer |-> FALSE, readers |-> {}]

\* GET /status before its handler runs: nothing read, no response.
NewStatus == [pc |-> "idle", guarded |-> <<>>, read |-> <<>>]

\* A request for the model called model_str on a tier, before its handler runs.
NewHandler(tier, model_str) ==
    [pc |-> "idle", tier |-> tier, model_str |-> model_str,
     at_start |-> <<>>, models |-> <<>>, resolved_model |-> <<>>]

\* No handler reads the cache.
NoClients == [status |-> NewStatus, handler |-> NewHandler("free", <<>>)]

\* Utc::now() when the refresher writes the cache: time is counted in
\* refreshes, AppState::new being at 0.
Utc_now(r) == r.refreshes + 1

\* The three assignments a refresh makes under its write guard.
Store(lists, now) ==
    [free_models |-> lists.free_models, stealth_models |-> lists.stealth_models,
     last_refreshed |-> now]

\* Tier_models that hands out the free catalogue to both tiers.
Tier_models_FreeOnly(tier, c) == c.free_models

\* Tier::models
Tier_models(tier, c) ==
    IF tier = "free" THEN c.free_models ELSE c.stealth_models

\* Proxy_error that knows no authentication_error.
Proxy_error_No401(status, message, code) ==
    [status |-> status,
     content_type |-> "application/json",
     error |-> [message |-> message,
                type |-> IF status >= 400 /\ status <= 499
                         THEN "invalid_request_error"
                         ELSE "server_error",
                param |-> Null,
                code |-> code]]

\* Proxy::error: the type follows from the status; code is null (<<>>) or the
\* string given (<<s>>).
Proxy_error(status, message, code) ==
    [status |-> status,
     content_type |-> "application/json",
     error |-> [message |-> message,
                type |-> CASE status = 401 -> "authentication_error"
                           [] status = 403 -> "permission_error"
                           [] status = 429 -> "rate_limit_error"
                           [] status /= 401 /\ status /= 403 /\ status /= 429
                              /\ status >= 400 /\ status <= 499 -> "invalid_request_error"
                           [] OTHER -> "server_error",
                param |-> Null,
                code |-> code]]

\* The bearer credential of the Authorization header, "" when there is none.
api_key_of(authorization) ==
    IF authorization = None THEN <<>>
    ELSE UnwrapOr(strip_prefix(authorization[1], <<"B", "e", "a", "r", "e", "r", " ">>), <<>>)

\* Proxy_handle_responses without the credential check.
Proxy_handle_responses_NoKeyCheck(request, c) ==
    LET models == Tier_models(request.tier, c)
        json_body == IF request.body.kind = "json" THEN Some(request.body.value) ELSE None
    IN  IF json_body = None
        THEN [ok |-> FALSE, response |-> Proxy_error(400, "invalid JSON", None)]
        ELSE
        LET model_str == UnwrapOr(json_body[1].model, <<>>)
        IN  IF model_str = <<>>
            THEN [ok |-> FALSE,
                  response |-> Proxy_error(400, "missing required parameter: model",
                                           Some("missing_parameter"))]
            ELSE
            LET resolved_model == find_model(models, model_str)
            IN  IF resolved_model = None
                THEN [ok |-> FALSE,
                      response |-> Proxy_error(404, "The model does not exist",
                                               Some("model_not_found"))]
                ELSE [ok |-> TRUE,
                      api_key |-> api_key_of(request.authorization),
                      model_id |-> resolved_model[1].id,
                      json_body |-> json_body[1]]

\* Proxy::handle_responses up to its call of responses::handle_responses:
\* either the response it returns itself, or the arguments of that call.
Proxy_handle_responses(request, c) ==
    LET models == Tier_models(request.tier, c)
        json_body == IF request.body.kind = "json" THEN Some(request.body.value) ELSE None
    IN  IF json_body = None
        THEN [ok |-> FALSE, response |-> Proxy_error(400, "invalid JSON", None)]
        ELSE
        LET model_str == UnwrapOr(json_body[1].model, <<>>)
        IN  IF model_str = <<>>
            THEN [ok |-> FALSE,
                  response |-> Proxy_error(400, "missing required parameter: model",
                                           Some("missing_parameter"))]
            ELSE
            LET resolved_model == find_model(models, model_str)
            IN  IF resolved_model = None
                THEN [ok |-> FALSE,
                      response |-> Proxy_error(404, "The model does not exist",
                                               Some("model_not_found"))]
                ELSE
                LET api_key == api_key_of(request.authorization)
                IN  IF api_key = <<>>
                    THEN [ok |-> FALSE,
                          response |-> Proxy_error(401,
                                                   "Missing API key in Authorization header",
                                                   Some("missing_api_key"))]
                    ELSE [ok |-> TRUE,
                          api_key |-> api_key,
                          model_id |-> resolved_model[1].id,
                          json_body |-> json_body[1]]

\* Proxy::extract_model
extract_model(bytes) ==
    IF bytes.kind = "json" THEN bytes.value.model ELSE None

\* Proxy::forward up to upstream.send(): the response it returns itself, or
\* the body it sends upstream.
Proxy_forward(request, c) ==
    LET models == Tier_models(request.tier, c)
        mid == extract_model(request.body)
    IN  IF mid = None
        THEN [ok |-> TRUE, body_bytes |-> request.body]
        ELSE LET m == find_model(models, mid[1])
             IN  IF m = None
                 THEN [ok |-> FALSE,
                       response |-> Proxy_error(404, "The model does not exist",
                                                Some("model_not_found"))]
                 ELSE IF m[1].id /= mid[1]
                 THEN [ok |-> TRUE,
                       body_bytes |-> [request.body EXCEPT !.value.model = Some(m[1].id)]]
                 ELSE [ok |-> TRUE, body_bytes |-> request.body]

\* format!("{status}") of the upstream statuses of the model.
StatusText(status) ==
    CASE status = 404 -> "404 Not Found"
      [] status = 429 -> "429 Too Many Requests"
      [] status = 500 -> "500 Internal Server Error"
      [] OTHER -> "503 Service Unavailable"

\* from_u16_or_bad_gateway that answers 502 whatever upstream's status.
from_u16_or_bad_gateway_Always502(status) == 502

\* StatusCode::from_u16(status).unwrap_or(StatusCode::BAD_GATEWAY)
from_u16_or_bad_gateway(status) ==
    IF status >= 100 /\ status <= 999 THEN status ELSE 502

---------------------------------------------------------------------------
(* State *)

VARIABLES
    inbound,     \* the HTTP request the router hands to the Proxy handler
    cache,       \* ModelCache: the catalogues free_models and stealth_models
    refresher,   \* the task that fills the cache: its position, its configuration,
                 \* and history: what its last refresh fetched, found and was told
    lock,        \* the RwLock around the cache: who holds its guards
    clients,     \* the handlers that read the cache while the refresher runs
    batch,       \* the health_check_batch call under way, <<>> when there is none
    upstream_calls, \* history: the requests sent upstream, each with its outcome
    ids,         \* history: the ids next_id gave to each concurrent caller
    body,        \* the Responses request body handed to handle_responses
    upstream_body, \* the whole body of upstream's response, as atoms
    wire,        \* the part of upstream_body not yet read
    upstream_failed, \* the upstream byte stream has yielded Err
    pc,          \* position of the call: idle, spawned, open, draining, closed, responded
    SEQ,         \* static SEQ: AtomicU64, the process-wide id counter
    req,         \* the TranslatedRequest of the call, <<>> before translation
    http,        \* the Response handle_responses returned, <<>> before it returns
    task,        \* the local variables of the spawned producer task
    outbox,      \* events built by the current step and not yet through send!
    queue,       \* the mpsc channel's buffer
    rx,          \* the receiving half: attached, dropped, ended
    emitted,     \* history: every event handed to send!, in order
    received     \* history: every event the body writer took from the channel

vars == <<inbound, cache, refresher, lock, clients, batch, upstream_calls, ids, body, upstream_body, wire, upstream_failed, pc, SEQ, req, http, task, outbox, queue, rx,
          emitted, received>>

\* The canonical id the gateway resolved the requested model to.
model_id == Proxy_handle_responses(inbound, cache).model_id

\* The gateway lets the Responses request through to handle_responses.
Accepted ==
    /\ inbound.surface = "responses"
    /\ Proxy_handle_responses(inbound, cache).ok

\* let mut body = body; body["model"] = json!(model_id);
HandleBody ==
    [Proxy_handle_responses(inbound, cache).json_body EXCEPT !.model = Some(model_id)]

\* The POST to upstream's /chat/completions and how it ended.
UpstreamRequest(api_key, cc_body, result) ==
    [path |-> "/chat/completions", api_key |-> api_key, cc_body |-> cc_body,
     result |-> result]

TransportFailure == [kind |-> "transport"]
Answered(status) == [kind |-> "status", code |-> status]

\* The task's locals as declared at the top of the spawned block.
NewTask(msg_id) ==
    [msg_id |-> msg_id,
     seq |-> 0,
     full_text |-> "",
     tool_calls |-> <<>>,
     text_content_started |-> FALSE,
     finish_reason |-> "stop",
     input_tokens |-> 0,
     output_tokens |-> 0,
     total_tokens |-> 0,
     buffer |-> <<>>,
     final_output |-> <<>>]

\* The record the translator operators work on, and its way back to the state.
Work == task @@ [SEQ |-> SEQ, out |-> <<>>]

Commit(w) ==
    /\ task' = [f \in DOMAIN task |-> w[f]]
    /\ SEQ' = w.SEQ
    /\ outbox' = outbox \o w.out

---------------------------------------------------------------------------
(* Inputs *)

RECURSIVE Flatten(_)
Flatten(ss) == IF ss = <<>> THEN <<>> ELSE Head(ss) \o Flatten(Tail(ss))

\* Every upstream SSE body of at most n blocks, one data line of Lines each.
Wires(Lines, n) ==
    UNION { { Flatten([i \in 1..k |-> Block(f[i])]) : f \in [1..k -> Lines] } : k \in 0..n }


\* The data lines upstream may send in the general specification.
GeneralLines ==
    { DataLine(JsonBody(TextChunk("a"))),
      DataLine(JsonBody(FinishChunk("length"))),
      DataLine(JsonBody(FinishChunk("stop"))),
      DataLine(JsonBody(UsageChunk(3, 4, 7))),
      DataLine(JsonBody(ToolChunk(<<CcToolCall(Some(0), Some("call_a"),
                                               Some(CcFunction(Some("f"), Some("x"))))>>))) }

\* Complete upstream answers to a non-streaming call.
NonStreamDocs ==
    { InvalidBody,
      JsonBody(CcResponse(Some(<<CcFullChoice(Some(CcMessage(Some("hello"), None)),
                                              Some("stop"))>>),
                          Some(CcUsage(Some(3), Some(4), Some(7))))),
      JsonBody(CcResponse(Some(<<CcFullChoice(Some(CcMessage(Some("he"), None)),
                                              Some("length"))>>),
                          None)),
      JsonBody(CcResponse(Some(<<CcFullChoice(Some(CcMessage(Some("a"), None)), Some("stop")),
                                 CcFullChoice(Some(CcMessage(Some("b"), None)), Some("length"))>>),
                          None)),
      JsonBody(CcResponse(Some(<<CcFullChoice(
                                   Some(CcMessage(None,
                                        Some(<<CcFullToolCall(Some("call_a"),
                                               Some(CcFunction(Some("f"), Some("x"))))>>))),
                                   Some("tool_calls"))>>),
                          None)),
      JsonBody(CcResponse(Some(<<CcFullChoice(Some(CcMessage(Some("a"), None)), None)>>),
                          None)) }

\* Model ids and header values of the inputs, as strings of characters.
Id_x_m_free == <<"x", "/", "m", ":", "f", "r", "e", "e">>
Id_y_m_free == <<"y", "/", "m", ":", "f", "r", "e", "e">>
Id_z_s == <<"z", "/", "s">>
BearerK == <<"B", "e", "a", "r", "e", "r", " ", "k">>

\* The catalogues of the two tiers: two free models with one display id, and
\* one stealth model.
Catalogue ==
    [free_models |-> <<Model(Id_x_m_free), Model(Id_y_m_free)>>,
     stealth_models |-> <<Model(Id_z_s)>>,
     last_refreshed |-> 1]

\* An HTTP request as the router hands it over: the tier and surface of its
\* route, its body bytes and its Authorization header.
Request(tier, surface, bytes, authorization) ==
    [tier |-> tier, surface |-> surface, body |-> bytes, authorization |-> authorization]

\* A well-formed Responses request for the free model with display id "m".
ValidRequest(stream) ==
    Request("free", "responses", JsonBody(RequestBody(Some(<<"m">>), stream)), Some(BearerK))

\* Requests the gateway answers itself, and Chat-Completions requests.
EdgeRequests ==
    { Request("free", "responses", InvalidBody, Some(BearerK)),
      Request("free", "responses", JsonBody(RequestBody(None, None)), Some(BearerK)),
      Request("free", "responses", JsonBody(RequestBody(Some(Id_z_s), None)), Some(BearerK)),
      Request("free", "responses", JsonBody(RequestBody(Some(<<"m">>), None)), None),
      Request("free", "chat", JsonBody(RequestBody(Some(<<"m">>), None)), Some(BearerK)),
      Request("free", "chat", JsonBody(RequestBody(Some(<<"q">>), None)), Some(BearerK)) }

\* The concurrent callers of next_id beside the call itself.
Callers == {"c1", "c2"}

\* The request asks for a streamed Responses answer.
WantsStream(request) ==
    /\ request.surface = "responses"
    /\ request.body.kind = "json"
    /\ request.body.value.stream = Some(TRUE)

\* The state when the router hands a request of Requests to its handler, with
\* the body upstream would answer it with: one of StreamWires to a streaming
\* call, one of Docs to a non-streaming call.
InitCallDocs(Requests, StreamWires, Docs) ==
    /\ inbound \in Requests
    /\ cache = Catalogue
    /\ refresher = Scheduled
    /\ lock = Unlocked
    /\ clients = NoClients
    /\ batch = <<>>
    /\ upstream_calls = <<>>
    /\ ids = [c \in Callers |-> <<>>]
    /\ body = <<>>
    /\ upstream_body \in IF WantsStream(inbound) THEN StreamWires
                         ELSE IF inbound.surface = "responses"
                                 /\ Proxy_handle_responses(inbound, cache).ok
                         THEN { <<doc>> : doc \in Docs }
                         ELSE {<<>>}
    /\ wire = upstream_body
    /\ upstream_failed = FALSE
    /\ pc = "idle"
    /\ SEQ = 1
    /\ req = <<>>
    /\ http = <<>>
    /\ task = NewTask(<<>>)
    /\ outbox = <<>>
    /\ queue = <<>>
    /\ rx = "attached"
    /\ emitted = <<>>
    /\ received = <<>>

InitCall(Requests, StreamWires) == InitCallDocs(Requests, StreamWires, NonStreamDocs)

\* The state before the handler runs, for a set of streamed bodies.
InitWith(StreamWires) ==
    InitCall({ValidRequest(Some(TRUE)), ValidRequest(None)} \cup EdgeRequests, StreamWires)

Init == InitWith(Wires(GeneralLines, MaxBlocks))

\* The data lines upstream may send in the tool-call specification: a tool call
\* whose name comes first, two argument fragments without a name, a tool call sent
\* whole, a delta without index whose id and arguments are empty strings, two
\* (beside an empty text delta), two tool-call deltas in one payload, and a text
\* delta.
ToolLines ==
    { DataLine(JsonBody(ToolChunk(<<CcToolCall(Some(0), Some("call_a"),
                                               Some(CcFunction(Some("f"), None)))>>))),
      DataLine(JsonBody(ToolChunk(<<CcToolCall(Some(0), None,
                                               Some(CcFunction(None, Some("x")))),
                                    CcToolCall(Some(0), None,
                                               Some(CcFunction(None, Some("y"))))>>))),
      DataLine(JsonBody(ToolChunk(<<CcToolCall(Some(1), Some("call_b"),
                                               Some(CcFunction(Some("g"), Some("y"))))>>))),
      DataLine(JsonBody(CcChunk(None, Some(<<CcChoice(None, Some(CcDelta(Some(""),
            Some(<<CcToolCall(None, Some(""), Some(CcFunction(Some("h"), Some(""))))>>))))>>)))),
      DataLine(JsonBody(ToolChunk(<<CcToolCall(Some(1), None,
                                               Some(CcFunction(None, Some("z")))),
                                    CcToolCall(Some(0), None, None)>>))),
      DataLine(JsonBody(TextChunk("a"))) }

InitTools == InitWith(Wires(ToolLines, MaxToolBlocks))

\* One payload of BurstLen choices, each with a one-character text delta.
BurstLine ==
    DataLine(JsonBody(CcChunk(None,
        Some([i \in 1..BurstLen |-> CcChoice(None, Some(CcDelta(Some("a"), None)))]))))

InitBurst == InitWith(Wires({BurstLine}, MaxBurstBlocks))

\* Responses request bodies with each echoed field absent or present.
EchoBodies ==
    { [RequestBody(Some(<<"m">>), stream) EXCEPT
         !.instructions = i, !.temperature = t, !.top_p = p, !.tool_choice = tc,
         !.parallel_tool_calls = ptc, !.tools = tl] :
        stream \in {None, Some(TRUE)},
        i \in {None, Some(JString("be brief"))},
        t \in {None, Some(0)},
        p \in {None, Some(0)},
        tc \in {None, Some(JString("none"))},
        ptc \in {None, Some(FALSE)},
        tl \in {None, Some(JArray(<<JObject([type |-> JString("function"),
                                               name |-> JString("f")])>>))} }

\* The data lines upstream may send in the echo specification.
EchoLines ==
    { DataLine(JsonBody(TextChunk("a"))),
      DataLine(JsonBody(FinishChunk("length"))) }

InitEcho ==
    InitCall({ Request("free", "responses", JsonBody(b), Some(BearerK)) : b \in EchoBodies }
               \cup EdgeRequests,
             Wires(EchoLines, MaxEchoBlocks))

---------------------------------------------------------------------------
(* Proxy::handle_responses and responses::handle_responses *)

\* The gateway answers the Responses request itself: malformed JSON, no model,
\* model not in the tier, no bearer credential.
ProxyRejects ==
    /\ pc = "idle"
    /\ inbound.surface = "responses"
    /\ ~Proxy_handle_responses(inbound, cache).ok
    /\ http' = Some(Proxy_handle_responses(inbound, cache).response)
    /\ pc' = "responded"
    /\ UNCHANGED <<inbound, cache, refresher, lock, clients, batch, upstream_calls, ids, body, upstream_body, wire, upstream_failed,
                   SEQ, req, task, outbox, queue, rx, emitted, received>>

\* client.post(...).send() fails: connect, timeout, reset.
HandleTransportError ==
    /\ pc = "idle"
    /\ Accepted
    /\ body' = HandleBody
    /\ LET r == translate_request(HandleBody, SEQ)
       IN  /\ r.ok
           /\ req' = r
           /\ SEQ' = SEQ + 1
           /\ upstream_calls' =
                Append(upstream_calls,
                       UpstreamRequest(Proxy_handle_responses(inbound, cache).api_key,
                                       r.cc_body, TransportFailure))
    /\ http' = Some(error_response(502, "upstream error", "server_error"))
    /\ pc' = "responded"
    /\ UNCHANGED <<inbound, cache, refresher, lock, clients, batch, ids, upstream_body, wire, upstream_failed, task, outbox, queue,
                   rx, emitted, received>>

\* Upstream answers with a non-success status: its body is logged, not relayed.
HandleUpstreamStatus ==
    /\ pc = "idle"
    /\ Accepted
    /\ body' = HandleBody
    /\ \E status \in {429, 500} :
         LET r == translate_request(HandleBody, SEQ)
         IN  /\ r.ok
             /\ req' = r
             /\ SEQ' = SEQ + 1
             /\ upstream_calls' =
                  Append(upstream_calls,
                         UpstreamRequest(Proxy_handle_responses(inbound, cache).api_key,
                                         r.cc_body, Answered(status)))
             /\ http' = Some(error_response(from_u16_or_bad_gateway(status),
                                            "Upstream returned " \o StatusText(status),
                                            "server_error"))
    /\ pc' = "responded"
    /\ UNCHANGED <<inbound, cache, refresher, lock, clients, batch, ids, upstream_body, wire, upstream_failed, task, outbox, queue,
                   rx, emitted, received>>

\* Non-streaming success path: upstream_resp.json() and translate_response.
HandleNonStream ==
    /\ pc = "idle"
    /\ Accepted
    /\ body' = HandleBody
    /\ LET r == translate_request(HandleBody, SEQ)
       IN  /\ r.ok
           /\ ~r.is_stream
           /\ req' = r
           /\ upstream_calls' =
                Append(upstream_calls,
                       UpstreamRequest(Proxy_handle_responses(inbound, cache).api_key,
                                       r.cc_body, Answered(200)))
           /\ LET cc_resp == ParseJson(Head(wire))
              IN  IF cc_resp = None
                  THEN /\ http' = Some(error_response(502, "failed to parse upstream response",
                                                      "server_error"))
                       /\ SEQ' = SEQ + 1
                  ELSE LET resp == translate_response(cc_resp[1], r, SEQ + 1)
                       IN  /\ http' = Some([status |-> 200,
                                            content_type |-> "application/json",
                                            response |-> resp])
                           /\ SEQ' = SEQ + 1 + Len(resp.output)
    /\ wire' = <<>>
    /\ pc' = "responded"
    /\ UNCHANGED <<inbound, cache, refresher, lock, clients, batch, ids, upstream_body, upstream_failed, task, outbox, queue, rx,
                   emitted, received>>

\* Streaming success path: stream_response mints msg_id, creates the channel,
\* spawns the producer and returns the SSE response.
HandleStream ==
    /\ pc = "idle"
    /\ Accepted
    /\ body' = HandleBody
    /\ LET r == translate_request(HandleBody, SEQ)
       IN  /\ r.ok
           /\ r.is_stream
           /\ req' = r
           /\ upstream_calls' =
                Append(upstream_calls,
                       UpstreamRequest(Proxy_handle_responses(inbound, cache).api_key,
                                       r.cc_body, Answered(200)))
           /\ task' = NewTask(next_id("msg", SEQ + 1))
           /\ SEQ' = SEQ + 2
    /\ http' = Some([status |-> 200, content_type |-> "text/event-stream"])
    /\ pc' = "spawned"
    /\ UNCHANGED <<inbound, cache, refresher, lock, clients, batch, ids, upstream_body, wire, upstream_failed, outbox, queue, rx,
                   emitted, received>>

---------------------------------------------------------------------------
(* Proxy::forward: the Chat-Completions pass-through *)

\* The model named by the body is not in the tier's catalogue.
ForwardRejects ==
    /\ pc = "idle"
    /\ inbound.surface = "chat"
    /\ ~Proxy_forward(inbound, cache).ok
    /\ http' = Some(Proxy_forward(inbound, cache).response)
    /\ pc' = "responded"
    /\ UNCHANGED <<inbound, cache, refresher, lock, clients, batch, upstream_calls, ids, body, upstream_body, wire, upstream_failed,
                   SEQ, req, task, outbox, queue, rx, emitted, received>>

\* upstream.send() answers: Proxy::stream relays status, headers and body.
ForwardRelays ==
    /\ pc = "idle"
    /\ inbound.surface = "chat"
    /\ Proxy_forward(inbound, cache).ok
    /\ \E status \in {200, 429} :
         /\ upstream_calls' =
              Append(upstream_calls,
                     [path |-> "/chat/completions",
                      authorization |-> inbound.authorization,
                      body_bytes |-> Proxy_forward(inbound, cache).body_bytes,
                      result |-> Answered(status)])
         /\ http' = Some([status |-> status, relayed |-> TRUE])
    /\ pc' = "responded"
    /\ UNCHANGED <<inbound, cache, refresher, lock, clients, batch, ids, body, upstream_body, wire, upstream_failed,
                   SEQ, req, task, outbox, queue, rx, emitted, received>>

\* upstream.send() fails.
ForwardTransportError ==
    /\ pc = "idle"
    /\ inbound.surface = "chat"
    /\ Proxy_forward(inbound, cache).ok
    /\ upstream_calls' =
         Append(upstream_calls,
                [path |-> "/chat/completions",
                 authorization |-> inbound.authorization,
                 body_bytes |-> Proxy_forward(inbound, cache).body_bytes,
                 result |-> TransportFailure])
    /\ http' = Some(Proxy_error(502, "upstream error", None))
    /\ pc' = "responded"
    /\ UNCHANGED <<inbound, cache, refresher, lock, clients, batch, ids, body, upstream_body, wire, upstream_failed,
                   SEQ, req, task, outbox, queue, rx, emitted, received>>

---------------------------------------------------------------------------
(* The producer task *)

\* The task starts: the four lifecycle events.
ProducerStart ==
    /\ pc = "spawned"
    /\ Commit(StartEvents(Work, req))
    /\ pc' = "open"
    /\ UNCHANGED <<inbound, cache, refresher, lock, clients, batch, upstream_calls, ids, body, upstream_body, wire, upstream_failed, req, http, queue, rx, emitted, received>>

\* Send of a task whose sender outlives it (a clone of tx kept elsewhere): the
\* channel is not closed after the last event.
Send_SenderKept ==
    /\ outbox /= <<>>
    /\ IF rx = "dropped"
       THEN queue' = queue
       ELSE /\ Len(queue) < ChannelCapacity
            /\ queue' = Append(queue, Head(outbox))
    /\ emitted' = Append(emitted, Head(outbox))
    /\ outbox' = Tail(outbox)
    /\ pc' = pc
    /\ UNCHANGED <<inbound, cache, refresher, lock, clients, batch, upstream_calls, ids, body, upstream_body, wire, upstream_failed, SEQ, req, http, task, rx, received>>

\* Send that does not wait for room: an event that finds the channel full is
\* dropped (try_send).
Send_DropWhenFull ==
    /\ outbox /= <<>>
    /\ IF rx = "dropped" \/ Len(queue) >= ChannelCapacity
       THEN queue' = queue
       ELSE queue' = Append(queue, Head(outbox))
    /\ emitted' = Append(emitted, Head(outbox))
    /\ outbox' = Tail(outbox)
    /\ pc' = IF pc = "draining" /\ Tail(outbox) = <<>> THEN "closed" ELSE pc
    /\ UNCHANGED <<inbound, cache, refresher, lock, clients, batch, upstream_calls, ids, body, upstream_body, wire, upstream_failed, SEQ, req, http, task, rx, received>>

\* tx.send(event).await of the oldest event not yet sent: it waits while the
\* channel is full and returns Err, dropping the event, once the receiver is gone.
\* After the last send of the task the sender is dropped.
Send ==
    /\ outbox /= <<>>
    /\ IF rx = "dropped"
       THEN queue' = queue
       ELSE /\ Len(queue) < ChannelCapacity
            /\ queue' = Append(queue, Head(outbox))
    /\ emitted' = Append(emitted, Head(outbox))
    /\ outbox' = Tail(outbox)
    /\ pc' = IF pc = "draining" /\ Tail(outbox) = <<>> THEN "closed" ELSE pc
    /\ UNCHANGED <<inbound, cache, refresher, lock, clients, batch, upstream_calls, ids, body, upstream_body, wire, upstream_failed, SEQ, req, http, task, rx, received>>

\* byte_stream.next() yields Ok(chunk): any non-empty prefix of what is left.
ReadChunk ==
    /\ pc = "open"
    /\ outbox = <<>>
    /\ ~upstream_failed
    /\ \E k \in 1..Len(wire) :
         /\ Commit(ProcessChunk(Work, SubSeq(wire, 1, k)))
         /\ wire' = SubSeq(wire, k + 1, Len(wire))
    /\ UNCHANGED <<inbound, cache, refresher, lock, clients, batch, upstream_calls, ids, body, upstream_body, upstream_failed, pc, req, http, queue, rx, emitted, received>>

\* byte_stream.next() yields None: upstream ended its body.
ReadEnd ==
    /\ pc = "open"
    /\ outbox = <<>>
    /\ wire = <<>>
    /\ Commit(Drain(Work, req))
    /\ pc' = "draining"
    /\ UNCHANGED <<inbound, cache, refresher, lock, clients, batch, upstream_calls, ids, body, upstream_body, wire, upstream_failed, req, http, queue, rx, emitted, received>>

\* ReadError that ends the task at once, without the drain.
ReadError_NoDrain ==
    /\ pc = "open"
    /\ outbox = <<>>
    /\ upstream_failed' = TRUE
    /\ pc' = "closed"
    /\ UNCHANGED <<inbound, cache, refresher, lock, clients, batch, upstream_calls, ids, body, upstream_body, wire, SEQ, req, http, task, outbox, queue, rx,
                   emitted, received>>

\* byte_stream.next() yields Err: warn and break; the bytes not yet read are lost.
ReadError ==
    /\ pc = "open"
    /\ outbox = <<>>
    /\ upstream_failed' = TRUE
    /\ Commit(Drain(Work, req))
    /\ pc' = "draining"
    /\ UNCHANGED <<inbound, cache, refresher, lock, clients, batch, upstream_calls, ids, body, upstream_body, wire, req, http, queue, rx, emitted, received>>

---------------------------------------------------------------------------
(* The consumer: the HTTP body writer polling ReceiverStream *)

\* The stream yields the next event.
Recv ==
    /\ rx = "attached"
    /\ queue /= <<>>
    /\ received' = Append(received, Head(queue))
    /\ queue' = Tail(queue)
    /\ UNCHANGED <<inbound, cache, refresher, lock, clients, batch, upstream_calls, ids, body, upstream_body, wire, upstream_failed, pc, SEQ, req, http, task, outbox, rx, emitted>>

\* The stream yields None: the channel is empty and the sender is dropped.
StreamEnd ==
    /\ rx = "attached"
    /\ queue = <<>>
    /\ pc = "closed"
    /\ rx' = "ended"
    /\ UNCHANGED <<inbound, cache, refresher, lock, clients, batch, upstream_calls, ids, body, upstream_body, wire, upstream_failed, pc, SEQ, req, http, task, outbox, queue,
                   emitted, received>>

\* The caller's connection closes: the body and with it the receiver is dropped,
\* and the events still in the channel with it.
Disconnect ==
    /\ rx = "attached"
    /\ pc \in {"spawned", "open", "draining", "closed"}
    /\ rx' = "dropped"
    /\ queue' = <<>>
    /\ UNCHANGED <<inbound, cache, refresher, lock, clients, batch, upstream_calls, ids, body, upstream_body, wire, upstream_failed, pc, SEQ, req, http, task, outbox,
                   emitted, received>>

Next ==
    \/ ProxyRejects
    \/ ForwardRejects
    \/ ForwardRelays
    \/ ForwardTransportError
    \/ HandleTransportError
    \/ HandleUpstreamStatus
    \/ HandleNonStream
    \/ HandleStream
    \/ ProducerStart
    \/ Send
    \/ ReadChunk
    \/ ReadEnd
    \/ ReadError
    \/ Recv
    \/ StreamEnd
    \/ Disconnect

Spec == Init /\ [][Next]_vars

\* The same program fed with fragmented tool calls.
SpecTools == InitTools /\ [][Next]_vars

\* The same program fed with more events than the channel holds.
SpecBurst == InitBurst /\ [][Next]_vars

\* The task awaits byte_stream.next(): it is in its read loop and has sent
\* every event it built. This is when ReadChunk, ReadEnd or ReadError can
\* happen.
AwaitingUpstream == pc = "open" /\ outbox = <<>>

\* The spawned task is scheduled whenever it can run; upstream goes on
\* delivering, ending or failing (weak fairness of the three read actions,
\* written with AwaitingUpstream for their enabling condition); and the body
\* writer goes on polling the receiver while it is attached. The caller may
\* disconnect at any time.
Fairness ==
    /\ WF_vars(ProducerStart)
    /\ WF_vars(Send)
    /\ (<>[]AwaitingUpstream) => []<><<ReadChunk \/ ReadEnd \/ ReadError>>_vars
    /\ WF_vars(Recv \/ StreamEnd)

\* The burst specification under these scheduling conditions.
FairSpecBurst == SpecBurst /\ Fairness

\* The model fields of the request bodies of the gateway specification: none, an
\* empty string, the display id and the canonical ids of the free models, the
\* display id and the canonical id of the stealth model, a canonical id without
\* its ":free" suffix, and an unknown name.
ModelNames ==
    { None, Some(<<>>), Some(<<"m">>), Some(Id_x_m_free), Some(Id_y_m_free),
      Some(<<"s">>), Some(Id_z_s), Some(<<"x", "/", "m">>), Some(<<"q">>) }

\* The Authorization headers of the gateway specification: none, another
\* scheme, a bearer header without credential, a bearer credential.
AuthorizationHeaders ==
    { None,
      Some(<<"B", "a", "s", "i", "c", " ", "k">>),
      Some(<<"B", "e", "a", "r", "e", "r", " ">>),
      Some(BearerK) }

\* Every request of the gateway specification, on both surfaces of both tiers.
ProxyRequests ==
    { Request(tier, surface, bytes, authorization) :
        tier \in {"free", "stealth"},
        surface \in {"responses", "chat"},
        bytes \in {InvalidBody}
                  \cup { JsonBody(RequestBody(m, stream)) :
                           m \in ModelNames, stream \in {None, Some(TRUE)} },
        authorization \in AuthorizationHeaders }

InitProxy ==
    InitCall(ProxyRequests, Wires({DataLine(JsonBody(TextChunk("a")))}, MaxProxyBlocks))

\* The same program behind every request the gateway may get.
SpecProxy == InitProxy /\ [][Next]_vars

---------------------------------------------------------------------------
(* Concurrent calls: other callers of next_id *)

\* The prefix of the k-th id a call asks for: its response id, its message id,
\* then its function-call ids.
PrefixOf(k) == IF k = 1 THEN "resp" ELSE IF k = 2 THEN "msg" ELSE "fc"

\* CallerNextId with the increment as a load and a store that another caller's
\* store may overwrite.
CallerNextId_LoadThenStore(c) ==
    /\ Len(ids[c]) < MaxIdsPerCaller
    /\ ids' = [ids EXCEPT ![c] = Append(@, next_id(PrefixOf(Len(@) + 1), SEQ))]
    /\ SEQ' \in {SEQ, SEQ + 1}
    /\ UNCHANGED <<inbound, cache, refresher, lock, clients, batch, upstream_calls, body, upstream_body, wire, upstream_failed, pc,
                   req, http, task, outbox, queue, rx, emitted, received>>

\* Another call runs next_id: SEQ.fetch_add(1, Relaxed) is one atomic step.
CallerNextId(c) ==
    /\ Len(ids[c]) < MaxIdsPerCaller
    /\ ids' = [ids EXCEPT ![c] = Append(@, next_id(PrefixOf(Len(@) + 1), SEQ))]
    /\ SEQ' = SEQ + 1
    /\ UNCHANGED <<inbound, cache, refresher, lock, clients, batch, upstream_calls, body, upstream_body, wire, upstream_failed, pc,
                   req, http, task, outbox, queue, rx, emitted, received>>

OtherCalls == \E c \in Callers : CallerNextId(c)

NextIds ==
    \/ Next
    \/ OtherCalls

\* The streamed upstream body of the identifier specification: one tool call.
IdWire ==
    Block(DataLine(JsonBody(ToolChunk(<<CcToolCall(Some(0), Some("call_a"),
                                       Some(CcFunction(Some("f"), Some("x"))))>>))))

InitIds == InitWith({IdWire})

\* The call among other calls that mint ids at any moment.
SpecIds == InitIds /\ [][NextIds]_vars

\* The same program called with every combination of the echoed request fields.
SpecEcho == InitEcho /\ [][Next]_vars

---------------------------------------------------------------------------
(* translate_request on its own, for request bodies of every shape *)

\* Items of an input array: messages with string and array content, with and
\* without role, function-call outputs, items without type, an item of another
\* type and an item that is no object.
InputItems ==
    { JObject([type |-> JString("message"), role |-> JString("developer"),
               content |-> JString("a")]),
      JObject([type |-> JString("message"),
               content |-> JArray(<<JObject([type |-> JString("input_text"),
                                             text |-> JString("a")])>>)]),
      JObject([type |-> JString("message"), role |-> JString("user"),
               content |-> JArray(<<JObject([type |-> JString("input_text")]),
                                    JObject([type |-> JString("input_image"),
                                             image_url |-> JString("u")])>>)]),
      JObject([type |-> JString("message"),
               content |-> JArray(<<JObject([type |-> JString("input_image")]),
                                    JObject([type |-> JString("summary_text"),
                                             text |-> JString("b")]),
                                    JObject([type |-> JString("refusal")]),
                                    JNumber(7)>>)]),
      JObject([type |-> JString("message"), role |-> JNumber(7), content |-> JNumber(7)]),
      JObject([type |-> JString("function_call_output"), call_id |-> JString("call_a"),
               output |-> JString("r")]),
      JObject([type |-> JString("function_call_output")]),
      JObject([role |-> JString("developer"), content |-> JString("c")]),
      JObject([role |-> JString("assistant")]),
      JObject([type |-> JString("reasoning"), role |-> JString("user")]),
      JObject(<<>>),
      JString("x") }

\* Values of the input field.
Inputs ==
    {None, Some(JString("hi")), Some(JNumber(7)), Some(JNull)}
    \cup { Some(JArray(items)) : items \in SeqsUpTo(InputItems, MaxInputItems) }

\* Values of the instructions field.
InstructionValues == {None, Some(JString("be brief")), Some(JNumber(7))}

\* Values of the tools field.
ToolValues ==
    { None, Some(JString("x")), Some(JArray(<<>>)),
      Some(JArray(<<JObject([type |-> JString("web_search")]),
                    JObject([type |-> JString("function"), name |-> JString("f"),
                             parameters |-> JObject(<<>>)]),
                    JNumber(7),
                    JObject([type |-> JString("function")])>>)) }

\* Values of the tool_choice field: strings, function objects, objects of
\* another type and without type, and the other kinds of JSON value.
ToolChoices ==
    { None,
      Some(JString("none")), Some(JString("required")), Some(JString("anything")),
      Some(JObject([type |-> JString("function"), name |-> JString("f"),
                    extra |-> JNumber(7)])),
      Some(JObject([type |-> JString("function")])),
      Some(JObject([type |-> JString("allowed_tools"), mode |-> JString("auto")])),
      Some(JObject([type |-> JNumber(7)])),
      Some(JObject(<<>>)),
      Some(JNumber(7)), Some(JBool(TRUE)), Some(JNull), Some(JArray(<<>>)) }

\* Values of the text field.
TextValues ==
    { None, Some(JString("x")), Some(JObject(<<>>)),
      Some(JObject([format |-> JString("x")])),
      Some(JObject([format |-> JObject([type |-> JString("text")])])),
      Some(JObject([format |-> JObject([type |-> JString("json_object")])])),
      Some(JObject([format |-> JObject([type |-> JString("json_schema")])])),
      Some(JObject([format |-> JObject([type |-> JString("json_schema"),
                                        name |-> JString("n"),
                                        strict |-> JBool(FALSE)])])) }

\* The request bodies translate_request is applied to: with and without a
\* string model, every message source, and every tool and format setting.
TranslateBodies ==
    { [RequestBody(m, None) EXCEPT !.instructions = i, !.input = inp] :
        m \in {None, Some(<<"m">>)}, i \in InstructionValues, inp \in Inputs }
    \cup
    { [RequestBody(m, stream) EXCEPT !.tools = tl, !.tool_choice = tc, !.text = tx,
                                    !.max_output_tokens = mt] :
        m \in {None, Some(<<"m">>)}, stream \in {None, Some(TRUE)},
        tl \in ToolValues, tc \in ToolChoices, tx \in TextValues, mt \in {None, Some(16)} }

\* Every upstream SSE body of at most n of the given blocks.
WiresOf(Blocks, n) ==
    UNION { { Flatten(f) : f \in [1..k -> Blocks] } : k \in 0..n }

\* The blocks of the chunk-boundary specification: a text delta that arrives
\* whole, one that may be cut between two characters and one, of a two-byte
\* character, that may be cut inside it.
CutBlocks ==
    { Block(DataLine(JsonBody(TextChunk("a")))),
      CutBlock(DataLine(JsonBody(TextChunk("b"))), FALSE),
      CutBlock(DataLine(JsonBody(TextChunk(TwoByteChar))), TRUE) }

InitCut == InitWith(WiresOf(CutBlocks, MaxCutBlocks))

\* The same program with chunk boundaries inside lines and characters.
SpecCut == InitCut /\ [][Next]_vars

\* The data lines upstream may send in the text specification: two text
\* deltas, and a payload of two choices, an empty text delta and a text delta.
TextLines ==
    { DataLine(JsonBody(TextChunk("a"))),
      DataLine(JsonBody(TextChunk("b"))),
      DataLine(JsonBody(CcChunk(None,
          Some(<<CcChoice(None, Some(CcDelta(Some(""), None))),
                 CcChoice(None, Some(CcDelta(Some("c"), None)))>>)))) }

InitText == InitWith(Wires(TextLines, MaxTextBlocks))

\* The same program fed with text deltas.
SpecText == InitText /\ [][Next]_vars

\* The choices of the non-stream specification: text alone, empty text, two
\* tool calls without content, text with a tool call whose function is absent,
\* no message, and an empty tool-call array without content.
ChoiceKinds ==
    { CcFullChoice(Some(CcMessage(Some("a"), None)), Some("stop")),
      CcFullChoice(Some(CcMessage(Some(""), None)), Some("stop")),
      CcFullChoice(Some(CcMessage(None,
                        Some(<<CcFullToolCall(Some("call_a"),
                                              Some(CcFunction(Some("f"), Some("x")))),
                               CcFullToolCall(Some("call_b"),
                                              Some(CcFunction(Some("g"), None)))>>))),
                   Some("tool_calls")),
      CcFullChoice(Some(CcMessage(Some("b"), Some(<<CcFullToolCall(None, None)>>))),
                   Some("length")),
      CcFullChoice(None, Some("stop")),
      CcFullChoice(Some(CcMessage(None, Some(<<>>))), None) }

\* Upstream answers with every list of at most MaxChoices of these choices, and
\* answers without a choices array.
ChoiceDocs ==
    { JsonBody(CcResponse(Some(choices), None)) : choices \in SeqsUpTo(ChoiceKinds, MaxChoices) }
    \cup { JsonBody(CcResponse(None, None)) }

InitNonStream ==
    InitCallDocs({ValidRequest(Some(TRUE)), ValidRequest(None)} \cup EdgeRequests,
                 Wires({DataLine(JsonBody(TextChunk("a")))}, MaxProxyBlocks),
                 ChoiceDocs)

\* The same program with upstream answers of several choices.
SpecNonStream == InitNonStream /\ [][Next]_vars

\* The data lines upstream may send in the usage specification: two usage
\* objects with all three counts, one with prompt_tokens alone, a usage that is
\* null or has none of the counts, and a payload without usage.
UsageLines ==
    { DataLine(JsonBody(UsageChunk(3, 4, 7))),
      DataLine(JsonBody(UsageChunk(5, 6, 11))),
      DataLine(JsonBody(CcChunk(Some(CcUsage(Some(9), None, None)), None))),
      DataLine(JsonBody(CcChunk(Some(CcUsage(None, None, None)), Some(<<>>)))),
      DataLine(JsonBody(TextChunk("a"))) }

InitUsage == InitWith(Wires(UsageLines, MaxUsageBlocks))

\* The same program fed with usage reports.
SpecUsage == InitUsage /\ [][Next]_vars

\* The data lines upstream may send in the terminator specification: a text
\* delta, a finish reason, the "[DONE]" terminator and a payload that is no
\* JSON.
NoiseLines ==
    { DataLine(JsonBody(TextChunk("a"))),
      DataLine(JsonBody(FinishChunk("length"))),
      DataLine(DoneBody),
      DataLine(InvalidBody) }

InitNoise == InitWith(Wires(NoiseLines, MaxNoiseBlocks))

\* The same program fed with terminators and malformed payloads.
SpecNoise == InitNoise /\ [][Next]_vars

\* The data lines upstream may send in the end-of-stream specification.
TailLines ==
    { DataLine(JsonBody(TextChunk("a"))),
      DataLine(JsonBody(TextChunk("b"))) }

\* How the upstream body may end: with the blank line of its last block, with
\* a data line and nothing behind it, or with a data line and one line end.
Tails == {<<>>} \cup { <<line>> : line \in TailLines } \cup { <<line, NL>> : line \in TailLines }

InitTail ==
    InitWith({ w \o t : w \in Wires(TailLines, MaxTailBlocks), t \in Tails })

\* The same program fed with bodies whose last block may lack its blank line.
SpecTail == InitTail /\ [][Next]_vars

\* translate_request is called with a body no gateway has looked at.
InitTranslate ==
    /\ inbound = <<>>
    /\ cache = Catalogue
    /\ refresher = Scheduled
    /\ lock = Unlocked
    /\ clients = NoClients
    /\ batch = <<>>
    /\ upstream_calls = <<>>
    /\ ids = [c \in Callers |-> <<>>]
    /\ body \in TranslateBodies
    /\ upstream_body = <<>>
    /\ wire = <<>>
    /\ upstream_failed = FALSE
    /\ pc = "idle"
    /\ SEQ = 1
    /\ req = <<>>
    /\ http = <<>>
    /\ task = NewTask(<<>>)
    /\ outbox = <<>>
    /\ queue = <<>>
    /\ rx = "attached"
    /\ emitted = <<>>
    /\ received = <<>>

\* let req = translate_request(&body): req is the Ok or the Err it returns.
TranslateRequest ==
    /\ pc = "idle"
    /\ inbound = <<>>
    /\ req' = translate_request(body, SEQ)
    /\ SEQ' = IF translate_request(body, SEQ).ok THEN SEQ + 1 ELSE SEQ
    /\ pc' = "translated"
    /\ UNCHANGED <<inbound, cache, refresher, lock, clients, batch, upstream_calls, ids, body, upstream_body, wire,
                   upstream_failed, http, task, outbox, queue, rx, emitted, received>>

NextTranslate == TranslateRequest

\* The request translator applied to request bodies of every shape.
SpecTranslate == InitTranslate /\ [][NextTranslate]_vars

\* The models upstream may list: a free model, the same with another name,
\* a stealth model, a meta router priced as free, and a free model whose
\* description makes it stealth too.
M_free == FullModel(Id_x_m_free, <<"M">>, None, None)
M_renamed == FullModel(Id_x_m_free, <<"N">>, None, None)
M_stealth == FullModel(Id_z_s, <<"S", "t", "e", "a", "l", "t", "h">>, None, None)
M_router ==
    FullModel(<<"o", "p", "e", "n", "r", "o", "u", "t", "e", "r", "/", "f", "r", "e", "e">>,
              <<"R">>, None, Some(Pricing(Some("0"), Some("0"))))
M_both ==
    FullModel(<<"c", "/", "b">>, <<"B">>, Some(<<"C", "l", "o", "a", "k", "e", "d">>),
              Some(Pricing(Some("0"), Some("0"))))

\* The lists upstream may answer GET /models with: models that come, go,
\* change places and names, and a list that has one id twice.
Catalogues ==
    { <<>>,
      <<M_free>>,
      <<M_free, M_both>>,
      <<M_both, M_renamed>>,
      <<M_stealth, M_router>>,
      <<M_free, M_stealth, M_both>>,
      <<M_free, M_free>>,
      <<M_stealth>> }

\* What Model::fetch_all may return: an error, or one of these lists.
FetchResults == {None} \cup { Some(all) : all \in Catalogues }

\* A process that starts, with or without OPENROUTER_API_KEY.
InitRefresh ==
    /\ inbound = <<>>
    /\ cache = EmptyCache
    /\ refresher \in {NewRefresher(None), NewRefresher(Some(<<"k">>))}
    /\ lock = Unlocked
    /\ clients = NoClients
    /\ batch = <<>>
    /\ upstream_calls = <<>>
    /\ ids = [c \in Callers |-> <<>>]
    /\ body = RequestBody(None, None)
    /\ upstream_body = <<>>
    /\ wire = <<>>
    /\ upstream_failed = FALSE
    /\ pc = "idle"
    /\ SEQ = 1
    /\ req = <<>>
    /\ http = <<>>
    /\ task = NewTask(<<>>)
    /\ outbox = <<>>
    /\ queue = <<>>
    /\ rx = "attached"
    /\ emitted = <<>>
    /\ received = <<>>

\* AppState::full_refresh up to its write of the cache c: what it fetched and
\* was told, and the lists it goes on to store, None when it returns early.
full_refresh(c, key) ==
    UNION { IF fetched = None
            THEN {[last |-> Refreshed("full", None, c, <<>>, <<>>), lists |-> None]}
            ELSE LET found == classify(fetched[1])
                 IN  { [last |-> Refreshed("full", fetched, c, free_pings, stealth_pings),
                        lists |->
                          Some(IF key /= None
                               THEN [free_models |->
                                         health_check_batch(found.free, free_pings),
                                     stealth_models |->
                                         health_check_batch(found.stealth, stealth_pings)]
                               ELSE [free_models |-> found.free,
                                     stealth_models |-> found.stealth])]
                       : free_pings \in PingsOf(found.free, key),
                         stealth_pings \in PingsOf(found.stealth, key) }
            : fetched \in FetchResults }

\* diff_refresh that stores empty lists when the fetch failed.
diff_refresh_ClearsOnError(c, key) ==
    {[last |-> Refreshed("diff", None, c, <<>>, <<>>),
      lists |-> Some([free_models |-> <<>>, stealth_models |-> <<>>])]}

\* AppState::diff_refresh up to its write of the cache c.
diff_refresh(c, key) ==
    UNION { IF fetched = None
            THEN {[last |-> Refreshed("diff", None, c, <<>>, <<>>), lists |-> None]}
            ELSE LET found == classify(fetched[1])
                     old_free == c.free_models
                     old_stealth == c.stealth_models
                 IN  { [last |-> Refreshed("diff", fetched, c, free_pings, stealth_pings),
                        lists |->
                          Some([free_models |->
                                    diff_tier(old_free, found.free, key, free_pings),
                                stealth_models |->
                                    diff_tier(old_stealth, found.stealth, key,
                                              stealth_pings)])]
                       : free_pings \in PingsOf(diff_tier_added(old_free, found.free), key),
                         stealth_pings \in
                             PingsOf(diff_tier_added(old_stealth, found.stealth), key) }
            : fetched \in FetchResults }

\* AppState::full_refresh, called by main, which then spawns the scheduler.
FullRefresh ==
    /\ refresher.pc = "startup"
    /\ \E r \in full_refresh(cache, refresher.key) :
         /\ cache' = IF r.lists = None THEN cache
                     ELSE Store(r.lists[1], Utc_now(refresher))
         /\ refresher' = [refresher EXCEPT
                            !.pc = "sleeping", !.refreshes = @ + 1, !.last = Some(r.last)]
    /\ UNCHANGED <<inbound, lock, clients, batch, upstream_calls, ids, body, upstream_body,
                   wire, upstream_failed,
                   pc, SEQ, req, http, task, outbox, queue, rx, emitted, received>>

\* AppState::diff_refresh, called by the scheduler each time its sleep ends.
DiffRefresh ==
    /\ refresher.pc = "sleeping"
    /\ refresher.refreshes <= MaxRefreshes
    /\ \E r \in diff_refresh(cache, refresher.key) :
         /\ cache' = IF r.lists = None THEN cache
                     ELSE Store(r.lists[1], Utc_now(refresher))
         /\ refresher' = [refresher EXCEPT !.refreshes = @ + 1, !.last = Some(r.last)]
    /\ UNCHANGED <<inbound, lock, clients, batch, upstream_calls, ids, body, upstream_body,
                   wire, upstream_failed,
                   pc, SEQ, req, http, task, outbox, queue, rx, emitted, received>>

NextRefresh == FullRefresh \/ DiffRefresh

\* The refresher alone: startup and the scheduler's refreshes.
SpecRefresh == InitRefresh /\ [][NextRefresh]_vars

\* The refresher of a process that starts, with GET /status and a request for
\* a model arriving while it runs: each step of each task is a step here.
InitCache ==
    /\ inbound = <<>>
    /\ cache = EmptyCache
    /\ refresher = NewRefresher(None)
    /\ lock = Unlocked
    /\ clients \in { [status |-> NewStatus, handler |-> NewHandler(tier, model_str)]
                     : tier \in {"free", "stealth"}, model_str \in {<<"m">>, <<"b">>} }
    /\ batch = <<>>
    /\ upstream_calls = <<>>
    /\ ids = [c \in Callers |-> <<>>]
    /\ body = RequestBody(None, None)
    /\ upstream_body = <<>>
    /\ wire = <<>>
    /\ upstream_failed = FALSE
    /\ pc = "idle"
    /\ SEQ = 1
    /\ req = <<>>
    /\ http = <<>>
    /\ task = NewTask(<<>>)
    /\ outbox = <<>>
    /\ queue = <<>>
    /\ rx = "attached"
    /\ emitted = <<>>
    /\ received = <<>>

\* What the steps of the refresher and of the cache's readers leave alone.
CallUnchanged ==
    UNCHANGED <<inbound, batch, upstream_calls, ids, body, upstream_body, wire,
                upstream_failed, pc, SEQ, req, http, task, outbox, queue, rx, emitted,
                received>>

\* A refresh from its start to self.cache.write(): it returns when the fetch
\* failed, and holds the lists it will store otherwise.
Begin(r) ==
    refresher' =
        IF r.lists = None
        THEN [refresher EXCEPT !.pc = "sleeping", !.refreshes = @ + 1, !.last = Some(r.last)]
        ELSE [refresher EXCEPT !.pc = "computed", !.lists = r.lists, !.last = Some(r.last)]

\* AppState::full_refresh, called by main, up to its write guard.
FullRefreshBegin ==
    /\ refresher.pc = "startup"
    /\ \E r \in full_refresh(cache, refresher.key) : Begin(r)
    /\ UNCHANGED <<cache, lock, clients>>
    /\ CallUnchanged

\* AppState::diff_refresh, called by the scheduler when its sleep ends, up to
\* its write guard; it reads the old lists under a read guard.
DiffRefreshBegin ==
    /\ refresher.pc = "sleeping"
    /\ refresher.refreshes <= MaxWrites
    /\ ~lock.writer
    /\ \E r \in diff_refresh(cache, refresher.key) : Begin(r)
    /\ UNCHANGED <<cache, lock, clients>>
    /\ CallUnchanged

\* CacheWriteLock that goes on to write without a guard.
CacheWriteLock_NoGuard ==
    /\ refresher.pc = "computed"
    /\ refresher' = [refresher EXCEPT !.pc = "writing", !.written = 0]
    /\ UNCHANGED <<cache, lock, clients>>
    /\ CallUnchanged

\* self.cache.write().await: granted when no guard is out.
CacheWriteLock ==
    /\ refresher.pc = "computed"
    /\ ~lock.writer /\ lock.readers = {}
    /\ lock' = [lock EXCEPT !.writer = TRUE]
    /\ refresher' = [refresher EXCEPT !.pc = "writing", !.written = 0]
    /\ UNCHANGED <<cache, clients>>
    /\ CallUnchanged

\* The next of the three assignments under the write guard.
CacheWrite ==
    /\ refresher.pc = "writing"
    /\ refresher.written < 3
    /\ LET to == Store(refresher.lists[1], Utc_now(refresher))
       IN  cache' = CASE refresher.written = 0 ->
                           [cache EXCEPT !.free_models = to.free_models]
                      [] refresher.written = 1 ->
                           [cache EXCEPT !.stealth_models = to.stealth_models]
                      [] refresher.written = 2 ->
                           [cache EXCEPT !.last_refreshed = to.last_refreshed]
    /\ refresher' = [refresher EXCEPT !.written = @ + 1]
    /\ UNCHANGED <<lock, clients>>
    /\ CallUnchanged

\* The refresh returns: its write guard is dropped, the scheduler sleeps.
CacheWriteUnlock ==
    /\ refresher.pc = "writing"
    /\ refresher.written = 3
    /\ lock' = [lock EXCEPT !.writer = FALSE]
    /\ refresher' = [refresher EXCEPT
                       !.pc = "sleeping", !.refreshes = @ + 1,
                       !.lists = None, !.written = 0]
    /\ UNCHANGED <<cache, clients>>
    /\ CallUnchanged

\* status: s.cache.read().await, granted when no write guard is out.
StatusLock ==
    /\ clients.status.pc = "idle"
    /\ ~lock.writer
    /\ lock' = [lock EXCEPT !.readers = @ \cup {"status"}]
    /\ clients' = [clients EXCEPT !.status.pc = "locked", !.status.guarded = <<cache>>]
    /\ UNCHANGED <<cache, refresher>>
    /\ CallUnchanged

\* status: the next of its three reads through the guard.
StatusRead ==
    /\ clients.status.pc = "locked"
    /\ Len(clients.status.read) < 3
    /\ LET n == Len(clients.status.read)
           v == CASE n = 0 -> Len(cache.free_models)
                  [] n = 1 -> Len(cache.stealth_models)
                  [] n = 2 -> cache.last_refreshed
       IN  clients' = [clients EXCEPT !.status.read = Append(@, v)]
    /\ UNCHANGED <<cache, refresher, lock>>
    /\ CallUnchanged

\* status returns its StatusBody and drops the guard.
StatusRespond ==
    /\ clients.status.pc = "locked"
    /\ Len(clients.status.read) = 3
    /\ lock' = [lock EXCEPT !.readers = @ \ {"status"}]
    /\ clients' = [clients EXCEPT !.status.pc = "responded"]
    /\ UNCHANGED <<cache, refresher>>
    /\ CallUnchanged

\* Proxy::handle_responses: let models = tier.models(&*state.cache.read().await),
\* the guard being dropped at the end of the statement.
HandlerTakeModels ==
    /\ clients.handler.pc = "idle"
    /\ ~lock.writer
    /\ clients' = [clients EXCEPT
                     !.handler.pc = "collecting",
                     !.handler.at_start = <<cache>>,
                     !.handler.models = Tier_models(clients.handler.tier, cache)]
    /\ UNCHANGED <<cache, refresher, lock>>
    /\ CallUnchanged

\* Proxy::handle_responses once the body is collected: the model is looked
\* up in the list taken at the start.
HandlerResolve ==
    /\ clients.handler.pc = "collecting"
    /\ clients' = [clients EXCEPT
                     !.handler.pc = "resolved",
                     !.handler.resolved_model =
                         find_model(clients.handler.models, clients.handler.model_str)]
    /\ UNCHANGED <<cache, refresher, lock>>
    /\ CallUnchanged

NextCache ==
    \/ FullRefreshBegin
    \/ DiffRefreshBegin
    \/ CacheWriteLock
    \/ CacheWrite
    \/ CacheWriteUnlock
    \/ StatusLock
    \/ StatusRead
    \/ StatusRespond
    \/ HandlerTakeModels
    \/ HandlerResolve

\* The refresher with the readers of the cache beside it.
SpecCache == InitCache /\ [][NextCache]_vars

\* str::parse::<usize>: an optional plus sign and at least one decimal digit.
parse_usize(s) ==
    LET Digits == <<"0", "1", "2", "3", "4", "5", "6", "7", "8", "9">>
        digits == IF s /= <<>> /\ s[1] = "+" THEN Tail(s) ELSE s
        DigitOf(c) == (CHOOSE i \in 1..10 : Digits[i] = c) - 1
        RECURSIVE value(_)
        value(d) == IF d = <<>> THEN 0
                    ELSE value(SubSeq(d, 1, Len(d) - 1)) * 10 + DigitOf(d[Len(d)])
    IN  IF digits = <<>> \/ \E i \in 1..Len(digits) : \A j \in 1..10 : Digits[j] /= digits[i]
        THEN None
        ELSE Some(value(digits))

\* Config::from_env: health_check_concurrency, from HEALTH_CHECK_CONCURRENCY
\* (None when the variable is not set).
health_check_concurrency(env) == UnwrapOr(parse_usize(UnwrapOr(env, <<"5">>)), 5)

\* What HEALTH_CHECK_CONCURRENCY may hold.
Environments == {None, Some(<<"0">>), Some(<<"1">>), Some(<<"2">>), Some(<<"x">>)}

\* The lists health_check_batch may be given.
BatchModels ==
    LET all == <<M_free, M_stealth, M_both, M_router, M_renamed>>
    IN  { SubSeq(all, 1, n) : n \in 0..MaxBatch }

\* A call of health_check_batch before its first statement: no semaphore, no
\* task, nothing joined.
NewBatch(models, concurrency) ==
    [pc |-> "called", models |-> models, concurrency |-> concurrency,
     permits |-> 0, spawned |-> 0, pinging |-> {},
     handles |-> [i \in 1..Len(models) |-> None],
     joined |-> 0, healthy |-> <<>>]

\* health_check_batch called by a refresh, under each configuration.
InitBatch ==
    /\ inbound = <<>>
    /\ cache = EmptyCache
    /\ refresher = NewRefresher(Some(<<"k">>))
    /\ lock = Unlocked
    /\ clients = NoClients
    /\ batch \in { NewBatch(models, health_check_concurrency(env))
                   : models \in BatchModels, env \in Environments }
    /\ upstream_calls = <<>>
    /\ ids = [c \in Callers |-> <<>>]
    /\ body = RequestBody(None, None)
    /\ upstream_body = <<>>
    /\ wire = <<>>
    /\ upstream_failed = FALSE
    /\ pc = "idle"
    /\ SEQ = 1
    /\ req = <<>>
    /\ http = <<>>
    /\ task = NewTask(<<>>)
    /\ outbox = <<>>
    /\ queue = <<>>
    /\ rx = "attached"
    /\ emitted = <<>>
    /\ received = <<>>

\* What the steps of health_check_batch leave alone.
BatchUnchanged ==
    UNCHANGED <<inbound, cache, refresher, lock, clients, upstream_calls, ids, body,
                upstream_body, wire, upstream_failed, pc, SEQ, req, http, task, outbox,
                queue, rx, emitted, received>>

\* health_check_batch: an empty list is returned at once; otherwise the
\* semaphore is made with concurrency permits.
BatchCall ==
    /\ batch.pc = "called"
    /\ batch' = IF batch.models = <<>>
                THEN [batch EXCEPT !.pc = "returned", !.healthy = batch.models]
                ELSE [batch EXCEPT !.pc = "spawning", !.permits = batch.concurrency]
    /\ BatchUnchanged

\* One turn of the for loop over the models: acquire_owned().await yields a
\* permit and the task that pings the model is spawned with it.
BatchSpawn ==
    /\ batch.pc = "spawning"
    /\ batch.permits > 0
    /\ LET i == batch.spawned + 1
       IN  batch' = [batch EXCEPT
                       !.permits = @ - 1,
                       !.spawned = i,
                       !.pinging = @ \cup {i},
                       !.pc = IF i = Len(batch.models) THEN "joining" ELSE "spawning"]
    /\ BatchUnchanged

\* A spawned task: its ping returns, it drops its permit and ends with the
\* model when the ping said the model is alive.
PingReturns ==
    /\ batch /= <<>>
    /\ \E i \in batch.pinging, ok \in BOOLEAN :
         batch' = [batch EXCEPT
                     !.pinging = @ \ {i},
                     !.permits = @ + 1,
                     !.handles[i] = Some(IF ok THEN Some(batch.models[i]) ELSE None)]
    /\ BatchUnchanged

\* One turn of the for loop over the handles: h.await yields the task's
\* result once the task has ended.
BatchJoin ==
    /\ batch.pc = "joining"
    /\ batch.joined < Len(batch.models)
    /\ LET h == batch.handles[batch.joined + 1]
       IN  /\ h /= None
           /\ batch' = [batch EXCEPT
                          !.joined = @ + 1,
                          !.healthy = IF h[1] /= None THEN Append(@, h[1][1]) ELSE @]
    /\ BatchUnchanged

\* health_check_batch returns healthy.
BatchReturn ==
    /\ batch.pc = "joining"
    /\ batch.joined = Len(batch.models)
    /\ batch' = [batch EXCEPT !.pc = "returned"]
    /\ BatchUnchanged

NextBatch == BatchCall \/ BatchSpawn \/ PingReturns \/ BatchJoin \/ BatchReturn

\* health_check_batch on a runtime that runs every task that can run, with
\* pings that answer or time out.
FairSpecBatch ==
    /\ InitBatch
    /\ [][NextBatch]_vars
    /\ WF_vars(BatchCall)
    /\ WF_vars(BatchSpawn)
    /\ WF_vars(PingReturns)
    /\ WF_vars(BatchJoin)
    /\ WF_vars(BatchReturn)

---------------------------------------------------------------------------
(* Vocabulary of the properties *)

Last(s) == s[Len(s)]

IsTerminal(e) == e.type \in {"response.completed", "response.incomplete"}

\* Positions of the terminal events in a sequence of events.
Terminals(es) == {i \in 1..Len(es) : IsTerminal(es[i])}

\* The task has handed its terminal event to send!.
TerminalEmitted == emitted /= <<>> /\ IsTerminal(Last(emitted))

\* The output array of the terminal event.
FinalOutput == Last(emitted).response.output

\* Positions in emitted of the events of one type about the item with this id.
ItemEvents(type, id) ==
    {i \in 1..Len(emitted) : emitted[i].type = type /\ emitted[i].item.id = id}

ItemIdEvents(type, id) ==
    {i \in 1..Len(emitted) : emitted[i].type = type /\ emitted[i].item_id = id}

\* The tool-call index whose accumulator produced this function-call item.
ToolIndexOf(item) ==
    CHOOSE idx \in DOMAIN task.tool_calls : task.tool_calls[idx].item_id = item.id

\* The part of the upstream body whose blocks the translator has processed.
ProcessedBody ==
    SubSeq(upstream_body, 1, Len(upstream_body) - Len(wire) - Len(task.buffer))

\* The part of the upstream body the producer has read.
ReadBody == SubSeq(upstream_body, 1, Len(upstream_body) - Len(wire))

---------------------------------------------------------------------------
(* Properties *)

\* C1: the sequence_number values of the events of a streaming call, in
\* emission order, are 1, 2, 3, ..., N: the i-th event handed to send! carries
\* i, and so does the i-th event the consumer receives.
C1_SequenceNumbers ==
    /\ \A i \in 1..Len(emitted) : emitted[i].sequence_number = i
    /\ \A i \in 1..Len(received) : received[i].sequence_number = i

\* C1 witness: a finished stream with text, a tool call and the terminal event,
\* all of it received.
C1_Witness ==
    /\ rx = "ended"
    /\ Len(received) >= 13
    /\ task.full_text /= ""
    /\ DOMAIN task.tool_calls /= {}

\* C6: the first four events of every streaming call are response.created
\* (status in_progress), response.in_progress, response.output_item.added for
\* the message item at output index 0 and response.content_part.added for an
\* empty output_text part, and until all four have been handed to send! nothing
\* of the upstream body has been read.
C6_StartingEvents ==
    /\ Len(emitted) >= 1 =>
         /\ emitted[1].type = "response.created"
         /\ emitted[1].response.status = "in_progress"
    /\ Len(emitted) >= 2 =>
         /\ emitted[2].type = "response.in_progress"
         /\ emitted[2].response.status = "in_progress"
    /\ Len(emitted) >= 3 =>
         /\ emitted[3].type = "response.output_item.added"
         /\ emitted[3].output_index = 0
         /\ emitted[3].item.type = "message"
         /\ emitted[3].item.status = "in_progress"
         /\ emitted[3].item.content = <<>>
    /\ Len(emitted) >= 4 =>
         /\ emitted[4].type = "response.content_part.added"
         /\ emitted[4].item_id = emitted[3].item.id
         /\ emitted[4].output_index = 0
         /\ emitted[4].part = [type |-> "output_text", text |-> "", annotations |-> <<>>]
    /\ (pc \in {"spawned", "open", "draining", "closed"} /\ Len(emitted) < 4) =>
         /\ wire = upstream_body
         /\ ~upstream_failed
         /\ task.buffer = <<>>
    /\ pc \in {"draining", "closed"} => Len(emitted) >= 4

\* C6 witness: the four events are out and an event derived from upstream
\* data follows them.
C6_Witness ==
    /\ Len(emitted) >= 5
    /\ emitted[5].type = "response.output_text.delta"


\* The function-call items of a list of output items, in list order.
FunctionCalls(output) == SelectSeq(output, LAMBDA it : it.type = "function_call")

\* C2: once the terminal event is out, the function-call items of its output
\* list are the accumulated tool calls in ascending tool-call-index order, and
\* each of them has exactly one response.output_item.added event, exactly one
\* response.function_call_arguments.done and exactly one
\* response.output_item.done, the added event first and the two done events
\* next to each other after it.
C2_ToolCallOrdering ==
    TerminalEmitted =>
        LET fcs == FunctionCalls(FinalOutput)
        IN  /\ Len(fcs) = Cardinality(DOMAIN task.tool_calls)
            /\ \A i, j \in 1..Len(fcs) :
                 i < j => ToolIndexOf(fcs[i]) < ToolIndexOf(fcs[j])
            /\ \A k \in 1..Len(fcs) :
                 LET added == ItemEvents("response.output_item.added", fcs[k].id)
                     args_done == ItemIdEvents("response.function_call_arguments.done",
                                               fcs[k].id)
                     item_done == ItemEvents("response.output_item.done", fcs[k].id)
                 IN  /\ Cardinality(added) = 1
                     /\ Cardinality(args_done) = 1
                     /\ Cardinality(item_done) = 1
                     /\ \A a \in added, d \in args_done, e \in item_done :
                          a < d /\ e = d + 1

\* C2 witness: two tool calls finished, the one with the larger index seen
\* first by the translator, one of them announced only at the drain.
C2_Witness ==
    /\ TerminalEmitted
    /\ DOMAIN task.tool_calls = {0, 1}
    /\ task.tool_calls[1].item_id.n < task.tool_calls[0].item_id.n
    /\ \E idx \in {0, 1} : ~task.tool_calls[idx].announced

RECURSIVE ConcatDeltas(_, _)
\* The delta payloads of the function_call_arguments.delta events of es that
\* are addressed to the item id, concatenated in order.
ConcatDeltas(es, id) ==
    IF es = <<>> THEN ""
    ELSE (IF /\ Head(es).type = "response.function_call_arguments.delta"
             /\ Head(es).item_id = id
          THEN Head(es).delta
          ELSE "") \o ConcatDeltas(Tail(es), id)

\* C3: once the terminal event is out, for every function-call item of its
\* output list the concatenation of the item's argument deltas equals the
\* arguments of the item and the arguments of its
\* response.function_call_arguments.done event.
C3_ArgumentsConcatenation ==
    TerminalEmitted =>
        \A k \in 1..Len(FinalOutput) :
            FinalOutput[k].type = "function_call" =>
                /\ ConcatDeltas(emitted, FinalOutput[k].id) = FinalOutput[k].arguments
                /\ \A d \in ItemIdEvents("response.function_call_arguments.done",
                                         FinalOutput[k].id) :
                     emitted[d].arguments = FinalOutput[k].arguments

\* C3 witness: a tool call whose arguments came in at least two non-empty
\* fragments, the first of them before its name.
C3_Witness ==
    /\ TerminalEmitted
    /\ \E k \in 1..Len(FinalOutput) :
         /\ FinalOutput[k].type = "function_call"
         /\ FinalOutput[k].arguments = "xy"
         /\ FinalOutput[k].name = "f"
         /\ \E a \in ItemEvents("response.output_item.added", FinalOutput[k].id) :
              \E d \in ItemIdEvents("response.function_call_arguments.delta",
                                    FinalOutput[k].id) : d < a


\* C4: a streaming call emits at most one terminal event; once the task has
\* ended it has emitted exactly one, as its last event, nothing is left to send
\* and the sender is dropped; while the task drains, the terminal event is the
\* last of the events still to send; and a consumer whose stream has ended has
\* received every emitted event, the terminal event last.
C4_OneTerminalEvent ==
    /\ Cardinality(Terminals(emitted)) <= 1
    /\ Terminals(emitted) /= {} =>
         /\ Terminals(emitted) = {Len(emitted)}
         /\ pc = "closed"
         /\ outbox = <<>>
    /\ pc = "closed" => TerminalEmitted
    /\ pc = "draining" => Terminals(outbox) = {Len(outbox)}
    /\ pc \in {"spawned", "open"} => Terminals(outbox) = {}
    /\ rx = "ended" => received = emitted

\* C4 witness: the upstream body ended, the task ended and the consumer's
\* stream ended after the terminal event.
C4_Witness ==
    /\ ~upstream_failed
    /\ rx = "ended"
    /\ DOMAIN task.tool_calls /= {}
    /\ IsTerminal(Last(received))

RECURSIVE ReasonsOfChoices(_)
\* The finish reasons a list of choices reports, in order.
ReasonsOfChoices(choices) ==
    IF choices = <<>> THEN <<>>
    ELSE Head(choices).finish_reason \o ReasonsOfChoices(Tail(choices))

RECURSIVE ReportedFinishReasons(_)
\* The finish reasons the data lines of a part of the upstream body report.
ReportedFinishReasons(atoms) ==
    IF atoms = <<>> THEN <<>>
    ELSE LET a == Head(atoms)
         IN  (IF /\ a /= NL
                 /\ a.pre = "data: "
                 /\ a.body.kind = "json"
                 /\ a.body.value.choices /= None
              THEN ReasonsOfChoices(a.body.value.choices[1])
              ELSE <<>>) \o ReportedFinishReasons(Tail(atoms))

\* A response object's status, details and (for a terminal event) event type
\* are those of the finish reason fr.
StatusMatches(response, fr) ==
    /\ response.status = (IF fr = "length" THEN "incomplete" ELSE "completed")
    /\ response.incomplete_details =
         (IF fr = "length" THEN [reason |-> "max_output_tokens"] ELSE Null)

\* C5: the status is "incomplete" with incomplete_details
\* {reason: "max_output_tokens"} exactly when the finish reason is "length" and
\* "completed" with null details otherwise, where the finish reason is the
\* first choice's in the non-streaming path ("stop" when it has none) and the
\* last one upstream reported in the streaming path ("stop" when none was);
\* the terminal event is response.incomplete exactly when the status is
\* "incomplete".
C5_StatusFromFinishReason ==
    /\ TerminalEmitted =>
         LET reasons == ReportedFinishReasons(ProcessedBody)
             fr == IF reasons = <<>> THEN "stop" ELSE Last(reasons)
         IN  /\ StatusMatches(Last(emitted).response, fr)
             /\ Last(emitted).type = "response.incomplete"
                  <=> Last(emitted).response.status = "incomplete"
    /\ (http /= <<>> /\ "response" \in DOMAIN http[1]) =>
         LET choices == UnwrapOr(upstream_body[1].value.choices, <<>>)
             fr == IF choices = <<>> THEN "stop"
                   ELSE UnwrapOr(choices[1].finish_reason, "stop")
         IN  StatusMatches(http[1].response, fr)

\* C5 witness: a stream in which upstream reported "stop" and then "length".
C5_Witness ==
    /\ TerminalEmitted
    /\ ReportedFinishReasons(ProcessedBody) = <<"stop", "length">>
    /\ Last(emitted).type = "response.incomplete"

\* C7 (as claimed): once the receiver is dropped the producer reads no further
\* upstream chunk and hands no terminal event to send!.
C7_ProducerCancelled ==
    [][rx = "dropped" =>
         /\ wire' = wire
         /\ Terminals(emitted') = Terminals(emitted)]_vars

\* C8: the channel never holds more than ChannelCapacity events; a send that
\* finds it full with the receiver attached does not complete; and while the
\* receiver is not dropped the events received followed by the events in the
\* channel are exactly the events emitted, in emission order.
C8_BoundedChannel ==
    /\ Len(queue) <= ChannelCapacity
    /\ (rx = "attached" /\ Len(queue) = ChannelCapacity) => ~ENABLED Send
    /\ rx /= "dropped" => received \o queue = emitted

\* C8 witness: the producer waits on a full channel.
C8_Witness ==
    /\ rx = "attached"
    /\ Len(queue) = ChannelCapacity
    /\ outbox /= <<>>

\* The events of a call whose upstream body is b, read in one chunk and ended
\* normally, with this call's identifiers.
NormalRun(b) ==
    LET w0 == NewTask(task.msg_id) @@ [SEQ |-> task.msg_id.n + 1, out |-> <<>>]
    IN  Drain(ProcessChunk(StartEvents(w0, req), b), req).out

\* C9: after an upstream read failure the task reads nothing more, and once it
\* has ended it has emitted exactly the events of a call whose upstream body
\* ended normally where the failure struck, terminal event included; the
\* caller's response stays the 200 event stream.
C9_ReadFailureIsEarlyEnd ==
    /\ upstream_failed => ~ENABLED ReadChunk
    /\ (upstream_failed /\ pc = "closed") =>
         /\ emitted = NormalRun(ReadBody)
         /\ TerminalEmitted
         /\ http = Some([status |-> 200, content_type |-> "text/event-stream"])

\* C9 witness: the failure struck after text and a tool call had been
\* accumulated and before the rest of the body was read.
C9_Witness ==
    /\ upstream_failed
    /\ pc = "closed"
    /\ wire /= <<>>
    /\ task.full_text /= ""
    /\ DOMAIN task.tool_calls /= {}

\* C10 (as claimed): after a mid-stream upstream failure, one that strikes
\* once the 200 status and the first events were sent, neither
\* response.completed nor response.incomplete is emitted.
C10_NoTerminalAfterFailure ==
    upstream_failed => Terminals(emitted) = {}


\* Positions in emitted of the events of one type.
EventsOfType(type) == {i \in 1..Len(emitted) : emitted[i].type = type}

\* C11: a finished stream in which upstream sent no non-empty text delta and at
\* least one tool call has no response.output_text.done event, exactly one
\* response.content_part.done event, whose text is empty, and a final output
\* list made of function-call items only.
C11_ToolCallsOnly ==
    (/\ TerminalEmitted
     /\ task.full_text = ""
     /\ DOMAIN task.tool_calls /= {}) =>
        /\ EventsOfType("response.output_text.delta") = {}
        /\ EventsOfType("response.output_text.done") = {}
        /\ Cardinality(EventsOfType("response.content_part.done")) = 1
        /\ \A i \in EventsOfType("response.content_part.done") :
             emitted[i].part.text = ""
        /\ FinalOutput /= <<>>
        /\ \A i \in 1..Len(FinalOutput) : FinalOutput[i].type = "function_call"

\* C11 witness: a finished stream of two tool calls and no text.
C11_Witness ==
    /\ TerminalEmitted
    /\ task.full_text = ""
    /\ Cardinality(DOMAIN task.tool_calls) = 2
    /\ Len(FinalOutput) = 2


RECURSIVE UsageReported(_)
\* Some data line of this part of the upstream body carries a usage object.
UsageReported(atoms) ==
    IF atoms = <<>> THEN FALSE
    ELSE LET a == Head(atoms)
         IN  \/ /\ a /= NL
                /\ a.pre = "data: "
                /\ a.body.kind = "json"
                /\ a.body.value.usage /= None
             \/ UsageReported(Tail(atoms))

\* The non-streamed upstream response with the content the stream delivered:
\* the same text, tool calls, finish reason and presence of usage.
EquivalentResponse ==
    LET idxs == SetToSortedSeq(DOMAIN task.tool_calls)
        tcs == [i \in 1..Len(idxs) |->
                  CcFullToolCall(Some(task.tool_calls[idxs[i]].id),
                                 Some(CcFunction(Some(task.tool_calls[idxs[i]].name),
                                                 Some(task.tool_calls[idxs[i]].arguments))))]
    IN  CcResponse(
          Some(<<CcFullChoice(Some(CcMessage(Some(task.full_text),
                                             IF tcs = <<>> THEN None ELSE Some(tcs))),
                              Some(task.finish_reason))>>),
          IF UsageReported(ProcessedBody)
          THEN Some(CcUsage(Some(task.input_tokens), Some(task.output_tokens),
                            Some(task.total_tokens)))
          ELSE None)

\* The field shape of a response object: its fields, the kind of its usage
\* and, item by item, the type and fields of its output.
ShapeOf(response) ==
    [fields |-> DOMAIN response,
     usage |-> IF response.usage = Null THEN "null" ELSE "object",
     output |-> [i \in 1..Len(response.output) |->
                   [type |-> response.output[i].type,
                    fields |-> DOMAIN response.output[i]]]]

\* C12 (as claimed): the response object of the terminal event has the field
\* shape of the object translate_response builds for the equivalent
\* non-streamed upstream response.
C12_SameShapeAsNonStream ==
    TerminalEmitted =>
        ShapeOf(Last(emitted).response)
          = ShapeOf(translate_response(EquivalentResponse, req, SEQ))


\* The events of emitted that carry a response object.
ResponseBearing == {i \in 1..Len(emitted) : "response" \in DOMAIN emitted[i]}

\* The response object echoes the defaults of the four sampling and tool fields.
EchoesDefaults(response) ==
    /\ response.temperature = 1
    /\ response.top_p = 1
    /\ response.tool_choice = JString("auto")
    /\ response.parallel_tool_calls = TRUE

\* C13: for a Responses request without temperature, top_p, tool_choice and
\* parallel_tool_calls the translated request echoes 1, 1, "auto" and true
\* (and null instructions and [] tools when these are absent too), and so does
\* every response-bearing event of the stream and the non-streamed final
\* object.
C13_EchoDefaults ==
    LET b == inbound.body.value
    IN  (/\ req /= <<>>
         /\ b.temperature = None
         /\ b.top_p = None
         /\ b.tool_choice = None
         /\ b.parallel_tool_calls = None) =>
            /\ EchoesDefaults(req)
            /\ b.instructions = None => req.instructions = Null
            /\ b.tools = None => req.tools_echo = JArray(<<>>)
            /\ \A i \in ResponseBearing :
                 /\ EchoesDefaults(emitted[i].response)
                 /\ b.instructions = None => emitted[i].response.instructions = Null
                 /\ b.tools = None => emitted[i].response.tools = JArray(<<>>)
            /\ "response" \in DOMAIN http[1] =>
                 /\ EchoesDefaults(http[1].response)
                 /\ b.instructions = None => http[1].response.instructions = Null
                 /\ b.tools = None => http[1].response.tools = JArray(<<>>)

\* C13 witness: a finished stream for a request with none of the six fields.
C13_Witness ==
    /\ TerminalEmitted
    /\ inbound.body.value = RequestBody(Some(<<"m">>), Some(TRUE))
    /\ Cardinality(ResponseBearing) = 3
    /\ Len(emitted) >= 8

\* C14: every response-bearing event of a call carries the response id and
\* the echoed instructions, temperature, top_p, tool_choice,
\* parallel_tool_calls and tools of the TranslatedRequest, which is still what
\* translate_request computed from the request body when the call began.
C14_SharedIdAndEcho ==
    req /= <<>> =>
        /\ req = translate_request(body, req.resp_id.n)
        /\ \A i \in ResponseBearing :
             /\ emitted[i].response.id = req.resp_id
             /\ [f \in DOMAIN Echo(req) |-> emitted[i].response[f]] = Echo(req)

\* C14 witness: a finished stream, with upstream payloads, for a request that
\* sets every echoed field.
C14_Witness ==
    /\ TerminalEmitted
    /\ Cardinality(ResponseBearing) = 3
    /\ Len(emitted) >= 8
    /\ body.temperature = Some(0)
    /\ body.tool_choice = Some(JString("none"))
    /\ body.instructions = Some(JString("be brief"))
    /\ body.tools /= None


---------------------------------------------------------------------------
(* Properties of the gateway, stated on the request as it came in *)

\* The catalogue of the tier the request was routed to.
TierCatalogue ==
    IF inbound.tier = "free" THEN cache.free_models ELSE cache.stealth_models

\* The body is no JSON.
Malformed == inbound.body.kind /= "json"

\* The body is JSON without a string model field, or with an empty one.
MissingModel ==
    /\ ~Malformed
    /\ UnwrapOr(inbound.body.value.model, <<>>) = <<>>

\* The body names a model.
NamesModel == ~Malformed /\ ~MissingModel

\* The models of the tier's catalogue the named model matches, by canonical id
\* or by display id.
Matching ==
    {i \in 1..Len(TierCatalogue) :
       \/ TierCatalogue[i].id = inbound.body.value.model[1]
       \/ display_id(TierCatalogue[i]) = inbound.body.value.model[1]}

\* The body names a model that is not in the tier.
NotInTier == NamesModel /\ Matching = {}

\* The request carries no bearer credential.
MissingCredential ==
    \/ inbound.authorization = None
    \/ Len(inbound.authorization[1]) <= 7
    \/ SubSeq(inbound.authorization[1], 1, 7) /= <<"B", "e", "a", "r", "e", "r", " ">>

\* The Responses request is one the gateway rejects itself.
RejectedLocally ==
    Malformed \/ MissingModel \/ NotInTier \/ MissingCredential

\* The handler has returned an error envelope.
Failed == http /= <<>> /\ "error" \in DOMAIN http[1]

\* C15: a Responses request causes at most one upstream call, whatever the
\* outcome of that call, and none at all when the gateway rejects it: malformed
\* JSON, no model, model not in the tier, no bearer credential.
C15_AtMostOneUpstreamCall ==
    inbound.surface = "responses" =>
        /\ Len(upstream_calls) <= 1
        /\ RejectedLocally => upstream_calls = <<>>
        /\ (pc = "responded" /\ ~RejectedLocally) => Len(upstream_calls) = 1

\* C15 witness: a request naming a model of the tier without bearer credential
\* has been answered, and nothing went upstream.
C15_Witness ==
    /\ inbound.surface = "responses"
    /\ http /= <<>>
    /\ NamesModel
    /\ ~NotInTier
    /\ MissingCredential
    /\ upstream_calls = <<>>

\* C16: on the Responses surface a malformed JSON body is answered 400
\* invalid_request_error, a JSON body without a string model 400
\* invalid_request_error, and a request naming a model of the tier without a
\* bearer credential 401 authentication_error, before the request is
\* translated: no response id is minted and nothing is sent upstream.
C16_LocalRejections ==
    (inbound.surface = "responses" /\ http /= <<>>) =>
        /\ (Malformed \/ MissingModel) =>
             /\ Failed
             /\ http[1].status = 400
             /\ http[1].error.type = "invalid_request_error"
        /\ (NamesModel /\ ~NotInTier /\ MissingCredential) =>
             /\ Failed
             /\ http[1].status = 401
             /\ http[1].error.type = "authentication_error"
             /\ req = <<>>
             /\ SEQ = 1
             /\ upstream_calls = <<>>

\* C16 witness: a request for a model of the tier, by its display id, with an
\* Authorization header of another scheme, has been answered.
C16_Witness ==
    /\ inbound.surface = "responses"
    /\ http /= <<>>
    /\ NamesModel
    /\ inbound.body.value.model = Some(<<"s">>)
    /\ Matching /= {}
    /\ inbound.authorization /= None
    /\ MissingCredential

\* C17 (as claimed): every failure response of a Responses call is
\* {error: {message, type, param, code}} with type one of invalid_request_error,
\* authentication_error, server_error, and param and code both null.
C17_NullParamAndCode ==
    (inbound.surface = "responses" /\ Failed) =>
        /\ DOMAIN http[1].error = {"message", "type", "param", "code"}
        /\ http[1].error.type \in
             {"invalid_request_error", "authentication_error", "server_error"}
        /\ http[1].error.param = Null
        /\ http[1].error.code = Null

\* C17 (amended): every failure response of a Responses call is
\* {error: {message, type, param, code}} with type one of invalid_request_error,
\* authentication_error, server_error and param null; code is null, except in
\* the gateway's own rejections, where it is "missing_parameter" (no model),
\* "model_not_found" (model not in the tier) or "missing_api_key" (no bearer
\* credential).
C17_ErrorEnvelope ==
    (inbound.surface = "responses" /\ Failed) =>
        /\ DOMAIN http[1].error = {"message", "type", "param", "code"}
        /\ http[1].error.type \in
             {"invalid_request_error", "authentication_error", "server_error"}
        /\ http[1].error.param = Null
        /\ http[1].error.code =
             (IF Malformed THEN Null
              ELSE IF MissingModel THEN Some("missing_parameter")
              ELSE IF NotInTier THEN Some("model_not_found")
              ELSE IF MissingCredential THEN Some("missing_api_key")
              ELSE Null)

\* C17 witness: the gateway rejected a model that is not in the tier.
C17_Witness ==
    /\ inbound.surface = "responses"
    /\ Failed
    /\ http[1].error.code = Some("model_not_found")
    /\ http[1].status = 404

\* The one upstream call of the Responses request and how it ended.
UpstreamResult == upstream_calls[1].result

ModelSent(call) ==
    IF "cc_body" \in DOMAIN call THEN call.cc_body.model
    ELSE call.body_bytes.value.model[1]

\* C19: on both surfaces, a request naming a model that matches no model of
\* its tier's catalogue is answered 404 and sends nothing upstream; when the
\* name matches, the model of every upstream call is the canonical id of a
\* model of that catalogue which the name matches.
C19_TierRestriction ==
    NamesModel =>
        /\ Matching = {} =>
             /\ upstream_calls = <<>>
             /\ http /= <<>> => (Failed /\ http[1].status = 404)
        /\ Matching /= {} =>
             \A k \in 1..Len(upstream_calls) :
                \E i \in Matching : ModelSent(upstream_calls[k]) = TierCatalogue[i].id

\* C19 witness: a Chat-Completions request naming a free model by its display
\* id went upstream under the canonical id.
C19_Witness ==
    /\ inbound.surface = "chat"
    /\ inbound.tier = "free"
    /\ inbound.body.kind = "json"
    /\ inbound.body.value.model = Some(<<"m">>)
    /\ upstream_calls /= <<>>
    /\ ModelSent(upstream_calls[1]) = Id_x_m_free


---------------------------------------------------------------------------
(* Properties of the identifier counter *)

\* The ids the call itself has minted: its response id, its message id, the
\* item ids of its tool calls and the ids of a non-streamed output.
ItemIds ==
    (IF task.msg_id = <<>> THEN {} ELSE {task.msg_id})
    \cup {task.tool_calls[i].item_id : i \in DOMAIN task.tool_calls}
    \cup (IF http /= <<>> /\ "response" \in DOMAIN http[1]
          THEN {http[1].response.output[i].id : i \in 1..Len(http[1].response.output)}
          ELSE {})

OwnIds == (IF req = <<>> THEN {} ELSE {req.resp_id}) \cup ItemIds

\* The ids the other callers have got.
OtherIds == UNION {{ids[c][i] : i \in 1..Len(ids[c])} : c \in Callers}

\* C20: under any interleaving of the calls, no counter value is handed out
\* twice, the values one caller gets increase in the order it asked, and so
\* the response id of the call differs from every id of the other calls and
\* from every item id.
C20_UniqueIncreasingIds ==
    /\ \A c \in Callers : \A i, j \in 1..Len(ids[c]) :
         i < j => ids[c][i].n < ids[c][j].n
    /\ \A c, d \in Callers : \A i \in 1..Len(ids[c]) : \A j \in 1..Len(ids[d]) :
         ids[c][i].n = ids[d][j].n => (c = d /\ i = j)
    /\ \A x \in OwnIds : \A y \in OtherIds : x.n /= y.n
    /\ \A x, y \in OwnIds : x.n = y.n => x = y
    /\ \A x \in OwnIds \cup OtherIds : x.n < SEQ
    /\ req /= <<>> =>
         /\ \A x \in ItemIds : req.resp_id.n < x.n /\ req.resp_id /= x
         /\ \A y \in OtherIds : req.resp_id /= y
    /\ \A i \in DOMAIN task.tool_calls : task.msg_id.n < task.tool_calls[i].item_id.n

\* C20 witness: another caller got an id before the call's response id and
\* one between its message id and the item id of its tool call.
C20_Witness ==
    /\ DOMAIN task.tool_calls /= {}
    /\ \E c \in Callers :
         /\ Len(ids[c]) = 2
         /\ ids[c][1].n < req.resp_id.n
         /\ task.msg_id.n < ids[c][2].n
         /\ \A i \in DOMAIN task.tool_calls : ids[c][2].n < task.tool_calls[i].item_id.n

---------------------------------------------------------------------------
(* Properties of the request translator *)

\* The type of a tool_choice object, "" when it has none or it is no string.
ToolChoiceType(v) == UnwrapOr(as_str(Value_get(v, "type")), "")

\* C21 (as claimed): the tool_choice of the Chat-Completions body is the
\* request's when that is a string, {type: "function", function: {name}} when
\* it is an object of type "function", and "auto" for every other value: an
\* object of another type, a number, a boolean, null, an array.
C21_ToolChoiceMapping ==
    (pc = "translated" /\ req.ok /\ body.tool_choice /= None) =>
        LET v == body.tool_choice[1]
        IN  req.cc_body.tool_choice =
              Some(IF v.json = "string" THEN v
                   ELSE IF v.json = "object" /\ ToolChoiceType(v) = "function"
                   THEN JObject([type |-> JString("function"),
                                 function |->
                                   JObject([name |-> IF "name" \in DOMAIN v.fields
                                                     THEN v.fields.name ELSE JNull])])
                   ELSE JString("auto"))

\* C22: translate_request fails exactly when model is missing or not a string;
\* for every other body, whatever input, instructions, tools, tool_choice and
\* text are, it returns a TranslatedRequest for that model with a message list.
C22_FailsOnlyWithoutModel ==
    pc = "translated" =>
        /\ req.ok <=> body.model /= None
        /\ ~req.ok => DOMAIN req = {"ok", "err"}
        /\ req.ok =>
             /\ DOMAIN req = {"ok", "cc_body", "resp_id", "model", "tools_echo", "instructions",
                              "temperature", "top_p", "tool_choice", "parallel_tool_calls",
                              "is_stream"}
             /\ req.model = body.model[1]
             /\ req.cc_body.model = body.model[1]
             /\ Len(req.cc_body.messages) <= 1 + MaxInputItems

\* C22 witness: a body with a model whose instructions and input are numbers
\* has been translated, and so has one whose tools and text are strings and
\* whose tool_choice is an array.
C22_Witness ==
    /\ pc = "translated"
    /\ req.ok
    /\ \/ body.instructions = Some(JNumber(7)) /\ body.input = Some(JNumber(7))
       \/ /\ body.tools = Some(JString("x"))
          /\ body.text = Some(JString("x"))
          /\ body.tool_choice = Some(JArray(<<>>))

---------------------------------------------------------------------------
(* Properties of the chunked read *)

\* C23 (as claimed): however the upstream body is cut into chunks, the events
\* of a call whose body was read to its end are those of the call that reads
\* the same body in one chunk.
C23_ChunkingInvariance ==
    (pc = "closed" /\ ~upstream_failed) => emitted = NormalRun(upstream_body)

---------------------------------------------------------------------------
(* Properties of the text deltas *)

RECURSIVE TextsOfChoices(_)
\* The non-empty text deltas of a list of choices, in order.
TextsOfChoices(choices) ==
    IF choices = <<>> THEN <<>>
    ELSE LET d == Head(choices).delta
         IN  (IF d /= None /\ d[1].content /= None /\ d[1].content[1] /= ""
              THEN <<d[1].content[1]>>
              ELSE <<>>) \o TextsOfChoices(Tail(choices))

RECURSIVE ReportedTexts(_)
\* The non-empty text deltas of the data lines of a part of the upstream body.
ReportedTexts(atoms) ==
    IF atoms = <<>> THEN <<>>
    ELSE LET a == Head(atoms)
         IN  (IF /\ a /= NL
                 /\ a.pre = "data: "
                 /\ a.body.kind = "json"
                 /\ a.body.value.choices /= None
              THEN TextsOfChoices(a.body.value.choices[1])
              ELSE <<>>) \o ReportedTexts(Tail(atoms))

RECURSIVE ConcatStrings(_)
ConcatStrings(ss) == IF ss = <<>> THEN "" ELSE Head(ss) \o ConcatStrings(Tail(ss))

\* The fragments of the response.output_text.delta events of es, in order.
TextDeltaFragments(es) ==
    LET ds == SelectSeq(es, LAMBDA e : e.type = "response.output_text.delta")
    IN  [i \in 1..Len(ds) |-> ds[i].delta]

---------------------------------------------------------------------------
(* Properties of the drain *)

\* The events the task has built, sent or not.
Built == emitted \o outbox

\* Positions in Built of the response.output_item.done events of message items
\* and of the done events of tool calls.
MessageDone ==
    {i \in 1..Len(Built) : /\ Built[i].type = "response.output_item.done"
                           /\ Built[i].item.type = "message"}

ToolCallDone ==
    {i \in 1..Len(Built) :
       \/ Built[i].type = "response.function_call_arguments.done"
       \/ /\ Built[i].type = "response.output_item.done"
          /\ Built[i].item.type = "function_call"}

\* C25: once the task drains, response.output_item.done of the message item
\* has been built, and the message item is in the final output list, exactly
\* when the accumulated text is non-empty or no tool call was accumulated;
\* then it is built once, before every done event of a tool call, the message
\* item is the first element of the final output list and no other, and its
\* status is "incomplete" when the finish reason is "length" and "completed"
\* otherwise.
C25_MessageItemAtDrain ==
    pc \in {"draining", "closed"} =>
        LET output == Last(Built).response.output
            finalized == task.full_text /= "" \/ DOMAIN task.tool_calls = {}
            status == IF task.finish_reason = "length" THEN "incomplete" ELSE "completed"
        IN  /\ finalized <=> MessageDone /= {}
            /\ finalized <=> \E k \in 1..Len(output) : output[k].type = "message"
            /\ finalized =>
                 /\ Cardinality(MessageDone) = 1
                 /\ \A d \in MessageDone :
                      /\ \A e \in ToolCallDone : d < e
                      /\ Built[d].item.id = task.msg_id
                      /\ Built[d].item.status = status
                      /\ Built[d].output_index = 0
                      /\ Built[d].item = output[1]
                 /\ \A k \in 2..Len(output) : output[k].type /= "message"

\* C25 witness: a finished stream with text, a tool call and the finish reason
\* "length".
C25_Witness ==
    /\ TerminalEmitted
    /\ task.full_text /= ""
    /\ DOMAIN task.tool_calls /= {}
    /\ task.finish_reason = "length"
    /\ ToolCallDone /= {}

---------------------------------------------------------------------------
(* Properties of the non-stream translator *)

RECURSIVE ItemsOfToolCalls(_)
\* What the function_call items of a list of upstream tool calls say.
ItemsOfToolCalls(tcs) ==
    IF tcs = <<>> THEN <<>>
    ELSE LET f == Head(tcs).function
         IN  <<[type |-> "function_call", status |-> "completed",
                call_id |-> Head(tcs).id,
                name |-> IF f = None THEN Null ELSE f[1].name,
                arguments |-> IF f = None \/ f[1].arguments = None
                              THEN "" ELSE f[1].arguments[1]]>>
             \o ItemsOfToolCalls(Tail(tcs))

RECURSIVE ItemsOfChoices(_)
\* What the output items of a list of upstream choices say: for each choice
\* its tool calls, then its text when it has any.
ItemsOfChoices(choices) ==
    IF choices = <<>> THEN <<>>
    ELSE LET m == Head(choices).message
         IN  (IF m /= None /\ m[1].tool_calls /= None
              THEN ItemsOfToolCalls(m[1].tool_calls[1]) ELSE <<>>)
             \o (IF m /= None /\ m[1].content /= None /\ m[1].content[1] /= ""
                 THEN <<[type |-> "message", status |-> "completed",
                         text |-> m[1].content[1]]>>
                 ELSE <<>>)
             \o ItemsOfChoices(Tail(choices))

\* What an output item says, its id left out.
Said(item) ==
    IF item.type = "message"
    THEN [type |-> "message", status |-> item.status, text |-> item.content[1].text]
    ELSE [type |-> item.type, status |-> item.status, call_id |-> item.call_id,
          name |-> item.name, arguments |-> item.arguments]

\* C26: the output array of a non-streamed response is, choice after choice in
\* upstream's order, one function_call item of status completed for each tool
\* call of the choice's message, in tool-call order, and one message item when
\* the message text is a non-empty string; a choice without tool calls whose
\* text is empty or absent, or without message, contributes no item.
C26_FlattenedChoices ==
    (http /= <<>> /\ "response" \in DOMAIN http[1]) =>
        LET output == http[1].response.output
            choices == UnwrapOr(upstream_body[1].value.choices, <<>>)
        IN  /\ [i \in 1..Len(output) |-> Said(output[i])] = ItemsOfChoices(choices)
            /\ \A i \in 1..Len(output) :
                 /\ output[i].type = "message" =>
                      /\ output[i].role = "assistant"
                      /\ Len(output[i].content) = 1
                      /\ output[i].content[1].type = "output_text"
                      /\ output[i].content[1].annotations = <<>>
                 /\ \A j \in 1..Len(output) : output[i].id = output[j].id => i = j

\* C26 witness: two choices, the first with two tool calls and no text, the
\* second with a tool call and text, gave four items.
C26_Witness ==
    /\ http /= <<>>
    /\ "response" \in DOMAIN http[1]
    /\ Len(http[1].response.output) = 4
    /\ Len(upstream_body[1].value.choices[1]) = 2
    /\ http[1].response.output[2].type = "function_call"
    /\ http[1].response.output[4].type = "message"

---------------------------------------------------------------------------
(* Properties of the usage counters *)

RECURSIVE ReportedUsages(_)
\* The usage objects of the data lines of a part of the upstream body.
ReportedUsages(atoms) ==
    IF atoms = <<>> THEN <<>>
    ELSE LET a == Head(atoms)
         IN  (IF /\ a /= NL
                 /\ a.pre = "data: "
                 /\ a.body.kind = "json"
                 /\ a.body.value.usage /= None
              THEN a.body.value.usage
              ELSE <<>>) \o ReportedUsages(Tail(atoms))

\* The count the last usage object of us that has the field gives for it, 0
\* when none has it.
LastCount(us, field) ==
    LET at == {i \in 1..Len(us) : us[i][field] /= None}
    IN  IF at = {} THEN 0
        ELSE us[CHOOSE i \in at : \A j \in at : j <= i][field][1]

\* The usage object has its three counts.
Complete(u) ==
    u.prompt_tokens /= None /\ u.completion_tokens /= None /\ u.total_tokens /= None

---------------------------------------------------------------------------
(* Properties of the tool-call accumulators *)

\* Tool-call deltas with every kind of id: absent, empty and non-empty, with
\* and without index and function.
IdDeltas ==
    { CcToolCall(index, id, function) :
        index \in {None, Some(0), Some(1)},
        id \in {None, Some(""), Some("call_c")},
        function \in {None, Some(CcFunction(Some("n"), Some("z")))} }

\* C28: in every step of the call each accumulator stays, keeps its item id
\* and, once its call id is non-empty, keeps a non-empty call id; and whatever
\* tool-call delta comes next, it leaves the item id of its accumulator as it
\* is, and the call id too when the id of the delta is absent or empty.
C28_StableIds ==
    [][/\ \A idx \in DOMAIN task.tool_calls :
            /\ idx \in DOMAIN task'.tool_calls
            /\ task'.tool_calls[idx].item_id = task.tool_calls[idx].item_id
            /\ task.tool_calls[idx].id /= "" => task'.tool_calls[idx].id /= ""
       /\ \A tc \in IdDeltas :
            LET idx == UnwrapOr(tc.index, 0)
                after == ProcessToolCall(Work, tc).tool_calls
            IN  idx \in DOMAIN task.tool_calls =>
                  /\ after[idx].item_id = task.tool_calls[idx].item_id
                  /\ (tc.id = None \/ tc.id = Some("")) =>
                       after[idx].id = task.tool_calls[idx].id
                  /\ task.tool_calls[idx].id /= "" => after[idx].id /= ""]_vars

\* C28 witness: the accumulator of index 0 got the id "call_a" and the name
\* "f" from one delta, and then a delta whose id is the empty string.
C28_Witness ==
    /\ 0 \in DOMAIN task.tool_calls
    /\ task.tool_calls[0].id = "call_a"
    /\ task.tool_calls[0].name = "fh"

---------------------------------------------------------------------------
(* Properties of payloads without content *)

\* The two data lines without content.
Ignored == {DataLine(DoneBody), DataLine(InvalidBody)}

RECURSIVE Strip(_)
\* The upstream body b without its blocks of one ignored line.
Strip(b) ==
    IF b = <<>> THEN <<>>
    ELSE IF Len(b) >= 3 /\ b[1] \in Ignored /\ b[2] = NL /\ b[3] = NL
    THEN Strip(SubSeq(b, 4, Len(b)))
    ELSE <<b[1]>> \o Strip(Tail(b))

\* The translator of this call after an upstream body b read in one chunk.
RunOn(b) ==
    LET w0 == NewTask(task.msg_id) @@ [SEQ |-> task.msg_id.n + 1, out |-> <<>>]
    IN  ProcessChunk(StartEvents(w0, req), b)

\* C29: a "[DONE]" line and a line that is no JSON, processed in any state of
\* the translator, leave all of it (events, text, tool calls, finish reason,
\* usage, sequence counter) as it was; while the stream is read, at the end of
\* a block, the translator and its events are those of the body read so far
\* without such blocks; and a call that read its whole body has emitted the
\* events of that body without such blocks.
C29_IgnoredPayloads ==
    /\ \A line \in Ignored : ProcessLine(Work, <<line>>) = Work
    /\ (pc = "open" /\ task.buffer = <<>>) =>
         LET w == RunOn(Strip(ReadBody))
         IN  /\ task = [f \in DOMAIN task |-> w[f]]
             /\ SEQ = w.SEQ
             /\ Built = w.out
    /\ (pc = "closed" /\ wire = <<>> /\ ~upstream_failed) =>
         emitted = NormalRun(Strip(upstream_body))

\* C29 witness: the call ended after "[DONE]", a payload that is no JSON and
\* then a text delta, and that text was translated.
C29_Witness ==
    /\ pc = "closed"
    /\ ~upstream_failed
    /\ upstream_body = Block(DataLine(DoneBody)) \o Block(DataLine(InvalidBody))
                          \o Block(DataLine(JsonBody(TextChunk("a"))))
    /\ task.full_text = "a"
    /\ \E i \in DOMAIN emitted : emitted[i].type = "response.output_text.delta"

---------------------------------------------------------------------------
(* Properties of the diff refresh *)

\* The list the refresher found upstream for a tier in its last refresh.
FreshOf(tier) ==
    LET found == classify(refresher.last[1].fetched[1])
    IN  IF tier = "free" THEN found.free ELSE found.stealth

\* The tier's list in the cache the last refresh started from.
OldOf(tier) == Tier_models(tier, refresher.last[1].old)

\* What the pings of the last refresh returned for the tier.
PingsFor(tier) ==
    IF tier = "free" THEN refresher.last[1].pings.free ELSE refresher.last[1].pings.stealth

\* The models of s whose id is in the set wanted, as they are in s and in the
\* order of s.
Among(s, wanted) == LET is_wanted(m) == m.id \in wanted IN SelectSeq(s, is_wanted)

\* The last thing the refresher did was a diff refresh whose fetch succeeded.
DiffRefreshed ==
    /\ refresher.last /= None
    /\ refresher.last[1].kind = "diff"
    /\ refresher.last[1].fetched /= None

\* C30: after a diff refresh the cached list of each tier is the previously
\* cached models whose id is still in the fresh list, as they were and in
\* their previous order, followed by the newly appeared models whose ping
\* answered (by all of them without a key); no ping was sent for a model
\* that was cached; no cached id is absent from the fresh list; and no id is
\* in the list twice.
C30_DiffRefreshResult ==
    DiffRefreshed =>
      \A tier \in {"free", "stealth"} :
        LET list == Tier_models(tier, cache)
            newly == Among(FreshOf(tier), IdsOf(FreshOf(tier)) \ IdsOf(OldOf(tier)))
        IN  /\ list = Among(OldOf(tier), IdsOf(FreshOf(tier)))
                        \o (IF refresher.key = None THEN newly
                            ELSE health_check_batch(newly, PingsFor(tier)))
            /\ Len(PingsFor(tier)) = IF refresher.key = None THEN 0 ELSE Len(newly)
            /\ IdsOf(list) \subseteq IdsOf(FreshOf(tier))
            /\ \A i, j \in 1..Len(list) : list[i].id = list[j].id => i = j

---------------------------------------------------------------------------
(* Properties of the item lifecycle *)

\* C31 (as claimed): every response.function_call_arguments.delta event comes
\* after a response.output_item.added event of the item it is addressed to.
C31_AddedBeforeDeltas ==
    \A d \in EventsOfType("response.function_call_arguments.delta") :
        \E a \in ItemEvents("response.output_item.added", emitted[d].item_id) : a < d

\* Positions in emitted of the events about the item with this id, whichever
\* way they name it.
EventsAbout(id) ==
    {i \in 1..Len(emitted) :
        \/ "item" \in DOMAIN emitted[i] /\ emitted[i].item.id = id
        \/ "item_id" \in DOMAIN emitted[i] /\ emitted[i].item_id = id}

\* C32 (as claimed): once the terminal event is out, the output_index of every
\* event about an item of its output list is the position of that item in
\* the list, counted from 0.
C32_OutputIndexIsPosition ==
    TerminalEmitted =>
        \A k \in 1..Len(FinalOutput) :
            \A i \in EventsAbout(FinalOutput[k].id) : emitted[i].output_index = k - 1

\* C33 (as claimed): once the terminal event is out, every item announced by
\* a response.output_item.added event has exactly one
\* response.output_item.done event.
C33_EveryAddedItemDone ==
    TerminalEmitted =>
        \A a \in EventsOfType("response.output_item.added") :
            Cardinality(ItemEvents("response.output_item.done", emitted[a].item.id)) = 1

\* C33 (amended): once the terminal event is out, every tool-call item
\* announced by a response.output_item.added event has exactly one
\* response.output_item.done event, after its added event; the message item
\* has exactly one too when text was accumulated or no tool call exists, and
\* none when the text is empty and a tool call exists.
C33_AddedItemsDone ==
    TerminalEmitted =>
        \A a \in EventsOfType("response.output_item.added") :
            LET dones == ItemEvents("response.output_item.done", emitted[a].item.id)
            IN  IF /\ emitted[a].item.type = "message"
                   /\ task.full_text = ""
                   /\ DOMAIN task.tool_calls /= {}
                THEN dones = {}
                ELSE /\ Cardinality(dones) = 1
                     /\ \A d \in dones : a < d

\* C33 witness: a call came to its terminal event with two tool calls and no
\* text, so that three items were announced and two of them finished.
C33_Witness ==
    /\ TerminalEmitted
    /\ task.full_text = ""
    /\ DOMAIN task.tool_calls = {0, 1}
    /\ Cardinality(EventsOfType("response.output_item.added")) = 3
    /\ Cardinality(EventsOfType("response.output_item.done")) = 2

\* C34 (as claimed): once the terminal event is out, every
\* response.content_part.added event has exactly one
\* response.content_part.done event for the same item, after it.
C34_ContentPartDone ==
    TerminalEmitted =>
        \A a \in EventsOfType("response.content_part.added") :
            LET dones == ItemIdEvents("response.content_part.done", emitted[a].item_id)
            IN  /\ Cardinality(dones) = 1
                /\ \A d \in dones : a < d

\* C35 (as claimed): once the terminal event is out, the name of every
\* function-call item of its output list is the name carried by the item's
\* response.output_item.added event, by its
\* response.function_call_arguments.done event and by its
\* response.output_item.done event.
C35_SameNameEverywhere ==
    TerminalEmitted =>
        \A k \in 1..Len(FinalOutput) :
            FinalOutput[k].type = "function_call" =>
                /\ \A a \in ItemEvents("response.output_item.added", FinalOutput[k].id) :
                     emitted[a].item.name = FinalOutput[k].name
                /\ \A d \in ItemIdEvents("response.function_call_arguments.done",
                                         FinalOutput[k].id) :
                     emitted[d].name = FinalOutput[k].name
                /\ \A e \in ItemEvents("response.output_item.done", FinalOutput[k].id) :
                     emitted[e].item.name = FinalOutput[k].name

---------------------------------------------------------------------------
(* Properties of the end of the stream *)

\* C36 (as claimed): once the read loop has ended, the text delta events
\* built are those of every data payload upstream sent before the stream
\* ended or failed, the payload of a last block without blank line included.
C36_AllPayloadsTranslated ==
    pc \in {"draining", "closed"} =>
        TextDeltaFragments(Built) = ReportedTexts(ReadBody)

---------------------------------------------------------------------------
(* Termination of the producer *)

\* C37: when upstream goes on to its end or its failure and the consumer
\* keeps taking events, a spawned producer leads to the terminal event
\* emitted, the channel closed and the consumer's stream ended with every
\* event received, unless the consumer disconnects; and the producer never
\* waits otherwise: a live task that cannot send either awaits upstream or
\* finds the receiver attached and the channel full.
C37_ProducerTerminates ==
    /\ (pc = "spawned") ~>
         \/ rx = "dropped"
         \/ /\ pc = "closed"
            /\ TerminalEmitted
            /\ rx = "ended"
            /\ received = emitted
    /\ []((pc \in {"open", "draining"} /\ ~ENABLED Send) =>
            \/ AwaitingUpstream
            \/ rx = "attached" /\ Len(queue) = ChannelCapacity)

\* C37 witness: the consumer's stream ended after it received more events
\* than the channel holds, the terminal event last.
C37_Witness ==
    /\ rx = "ended"
    /\ TerminalEmitted
    /\ received = emitted
    /\ Len(received) > ChannelCapacity

\* The StatusBody of a cache: the three values status reads.
StatusBody(c) == <<Len(c.free_models), Len(c.stealth_models), c.last_refreshed>>

\* The cache holds part of a refresh: it is neither the cache the refresh
\* started from nor the one it stores.
Torn ==
    /\ refresher.pc = "writing"
    /\ cache /= refresher.last[1].old
    /\ cache /= Store(refresher.lists[1], Utc_now(refresher))

\* C38: a reader of the cache never sees part of a refresh. While status
\* holds its guard the cache is whole and stays the cache it took the guard
\* on, and the three values it reports are that cache's; the list a request
\* handler took at its start stays that list, and the model it resolves is
\* looked up in it, whatever a refresh has stored since.
C38_ReadersSeeWholeRefreshes ==
    /\ lock.readers /= {} => ~Torn
    /\ clients.status.pc = "locked" =>
         /\ cache = clients.status.guarded[1]
         /\ clients.status.read =
              SubSeq(StatusBody(clients.status.guarded[1]), 1, Len(clients.status.read))
    /\ clients.status.pc = "responded" =>
         clients.status.read = StatusBody(clients.status.guarded[1])
    /\ clients.handler.pc \in {"collecting", "resolved"} =>
         clients.handler.models =
             Tier_models(clients.handler.tier, clients.handler.at_start[1])
    /\ clients.handler.pc = "resolved" =>
         clients.handler.resolved_model =
             find_model(Tier_models(clients.handler.tier, clients.handler.at_start[1]),
                        clients.handler.model_str)

\* A refresh waits for its write guard while status is half way through its
\* reads, and a handler has resolved its model in a list an earlier refresh
\* has replaced since with one that resolves it otherwise.
C38_Witness ==
    /\ refresher.pc = "computed"
    /\ Store(refresher.lists[1], Utc_now(refresher)).free_models /= cache.free_models
    /\ clients.status.pc = "locked"
    /\ Len(clients.status.read) = 1
    /\ clients.handler.pc = "resolved"
    /\ clients.handler.resolved_model /=
         find_model(Tier_models(clients.handler.tier, cache), clients.handler.model_str)


\* The refresh that has just returned found upstream's model list out of
\* reach.
FetchFailed == refresher.last /= None /\ refresher.last[1].fetched = None

\* C39: a refresh whose fetch fails changes nothing in the cache, neither
\* tier's list nor last_refreshed, sends no ping, and leaves the scheduler
\* asleep until its next refresh, which it goes on to attempt.
C39_FailedFetchKeepsCache ==
    /\ [][(refresher'.refreshes = refresher.refreshes + 1
           /\ refresher'.last[1].fetched = None) =>
              /\ cache' = cache
              /\ refresher'.last[1].old = cache
              /\ refresher'.last[1].pings = [free |-> <<>>, stealth |-> <<>>]
              /\ refresher'.lists = None
              /\ refresher'.pc = "sleeping"]_vars
    /\ []((FetchFailed /\ refresher.refreshes <= MaxRefreshes) => ENABLED DiffRefresh)

\* The second diff refresh of a gateway that holds a health check key has
\* failed to fetch, after the first one stored a free model.
C39_Witness ==
    /\ FetchFailed
    /\ refresher.last[1].kind = "diff"
    /\ refresher.key /= None
    /\ refresher.refreshes = 3
    /\ cache.free_models /= <<>>
    /\ cache.last_refreshed = 2

\* C40: whatever HEALTH_CHECK_CONCURRENCY holds, health_check_batch called
\* with a non-empty list returns, and at no time are more pings under way
\* than the configured concurrency.
C40_BatchReturns ==
    /\ [](Cardinality(batch.pinging) <= batch.concurrency)
    /\ (batch.pc = "called" /\ batch.models /= <<>>) ~> (batch.pc = "returned")

====
